---- MODULE Spec2Model ----
(***************************************************************************)
(* Ruleset store, ruleset generation and episode lookup of mediathekarr.   *)
(*                                                                         *)
(* The server is a single Node.js event loop: code between two awaits runs *)
(* atomically, and every await is a point where other requests and the     *)
(* background refresh can run.  Each action below is one such atomic       *)
(* section: the completion of the awaited I/O together with the            *)
(* synchronous code that follows it up to the next await.                  *)
(*                                                                         *)
(* Text is modelled as tuples of one-character strings, absent values      *)
(* (null / undefined) as the empty tuple None and present ones as <<v>>.   *)
(***************************************************************************)
EXTENDS Integers, Sequences, FiniteSets, TLC

(* ---- bounds ----------------------------------------------------------- *)
NumLookups == 2      \* lookup requests (fetchSearchResultsById calls)
MaxLoads   == 2      \* loadRulesets invocations
MaxTicks   == 1      \* clock advances
MaxDownloads == 2    \* rows of table Download (addToQueue calls)
MaxTasks   == 2      \* processDownload invocations at one time

(* ---- program constants ------------------------------------------------ *)
REFRESH_INTERVAL_MS == 3600000

\* wall clock at process start (any real Date.now() is far beyond one
\* refresh interval) and the step by which the modelled clock advances
StartTimeMs == 2 * REFRESH_INTERVAL_MS
ClockStepMs == REFRESH_INTERVAL_MS + 1

Lookups == 1..NumLookups
Loads   == 1..MaxLoads

None == <<>>
Some(v) == <<v>>
IsSome(o) == o # <<>>
Val(o) == o[1]

(* ---- text helpers ----------------------------------------------------- *)
UpperChars == <<"A","B","C","D","E","F","G","H","I","J","K","L","M",
                "N","O","P","Q","R","S","T","U","V","W","X","Y","Z">>
LowerChars == <<"a","b","c","d","e","f","g","h","i","j","k","l","m",
                "n","o","p","q","r","s","t","u","v","w","x","y","z">>
Digits == <<"0","1","2","3","4","5","6","7","8","9">>

IsDigit(c) == \E k \in 1..10 : Digits[k] = c
DigitVal(c) == (CHOOSE k \in 1..10 : Digits[k] = c) - 1

LowerChar(c) ==
  IF \E k \in 1..26 : UpperChars[k] = c
  THEN LowerChars[CHOOSE k \in 1..26 : UpperChars[k] = c]
  ELSE c

\* String.prototype.toLowerCase
toLowerCase(s) == [i \in 1..Len(s) |-> LowerChar(s[i])]

\* String.prototype.includes
includes(s, sub) ==
  \E i \in 0..(Len(s) - Len(sub)) : SubSeq(s, i + 1, i + Len(sub)) = sub

\* String.prototype.endsWith
endsWith(s, suf) ==
  Len(suf) <= Len(s) /\ SubSeq(s, Len(s) - Len(suf) + 1, Len(s)) = suf

(* ---- catalog topics and show names ------------------------------------ *)
TopicTatort == <<"T","a","t","o","r","t">>
TopicHeute  == <<"h","e","u","t","e">>
Topics == {TopicTatort, TopicHeute}

NameTatortKlassiker ==
  <<"T","a","t","o","r","t"," ","K","l","a","s","s","i","k","e","r">>
NameNowhere == <<"N","o","w","h","e","r","e">>

NameDerFall  == <<"D","e","r"," ","F","a","l","l">>
NameDerZeuge == <<"D","e","r"," ","Z","e","u","g","e">>
Year2020 == <<"2","0","2","0">>

(* ---- show metadata (TvdbData) ----------------------------------------- *)
\* aired is the calendar day new Date(ep.aired) denotes in the server's
\* time zone, or None when the provider gave no air date
AirDate(y, m, d) == [y |-> y, m |-> m, d |-> d]
Episode(name, s, e, aired) ==
  [name |-> name, seasonNumber |-> s, episodeNumber |-> e, aired |-> aired]

ShowIds == {1, 2, 3}

TvdbData(id) ==
  CASE id = 1 ->
         [id |-> 1, name |-> TopicTatort, germanName |-> Some(TopicTatort),
          aliases |-> <<>>,
          episodes |-> <<Episode(NameDerFall, 1, 5, Some(AirDate(2024, 6, 7))),
                         Episode(NameDerZeuge, 1, 6, None)>>]
    [] id = 2 ->
         [id |-> 2, name |-> TopicTatort,
          germanName |-> Some(NameTatortKlassiker),
          aliases |-> <<>>,
          episodes |-> <<Episode(NameDerFall, 1, 5, Some(AirDate(2020, 3, 1)))>>]
    [] OTHER ->
         [id |-> 3, name |-> NameNowhere, germanName |-> None,
          aliases |-> <<>>,
          episodes |-> <<Episode(NameDerZeuge, 1, 1, None)>>]

(* ---- rulesets ---------------------------------------------------------- *)
SeasonAndEpisodeNumber == "SeasonAndEpisodeNumber"
ItemTitleIncludes      == "ItemTitleIncludes"
ItemTitleExact         == "ItemTitleExact"
ItemTitleEqualsAirdate == "ItemTitleEqualsAirdate"

Filter(attribute, type, value) ==
  [attribute |-> attribute, type |-> type, value |-> value]

\* the filter list every generated ruleset is created with:
\* [{"attribute":"duration","type":"GreaterThan","value":"15"}]
DefaultFilters == <<Filter("duration", "GreaterThan", <<"1","5">>)>>

Ruleset(id, topic, tvdbId, priority, strategy, seasonRegex, episodeRegex, filters) ==
  [id |-> id, mediaId |-> tvdbId, topic |-> topic, priority |-> priority,
   filters |-> filters, titleRegexRules |-> <<>>,
   episodeRegex |-> episodeRegex, seasonRegex |-> seasonRegex,
   matchingStrategy |-> strategy,
   media |-> [media_id |-> tvdbId, media_tvdbId |-> tvdbId]]

\* regular expressions that occur in rulesets, by their source text
ReSeason2   == "(?<=S)(\\d{2})(?=/E)"
ReEpisode2  == "(?<=E)(\\d{2})(?=\\))"

\* curated rulesets as published in data/rulesets.json; show 4 is a show no
\* modelled lookup asks for
CuratedHeute  == Ruleset(10, TopicHeute, 4, 0, ItemTitleEqualsAirdate,
                         None, None, DefaultFilters)
CuratedTatort == Ruleset(11, TopicTatort, 1, 1, SeasonAndEpisodeNumber,
                         Some(ReSeason2), Some(ReEpisode2), DefaultFilters)

CuratedHeuteSpezial == Ruleset(12, TopicHeute, 4, 2, ItemTitleIncludes,
                               None, None, DefaultFilters)

\* the second list is published with a topic's rulesets out of priority
\* order
CuratedA == <<CuratedHeute>>
CuratedB == <<CuratedTatort, CuratedHeuteSpezial, CuratedHeute>>

\* what the GitHub download can deliver: null (transport error, non-OK
\* status) or a list; and what the local file can deliver: an exception
\* (None) or a list
GitHubOutcomes    == {None, Some(CuratedA), Some(CuratedB)}
LocalFileOutcomes == {None, Some(CuratedA)}

(* ---- catalog (MediathekView) ------------------------------------------ *)
\* a hit whose size and list timestamp play no part is given both as 0
Hit(topic, title, duration, url_video) ==
  [topic |-> topic, title |-> title, duration |-> duration,
   url_video |-> url_video, size |-> 0, filmlisteTimestamp |-> 0]

UrlMp4 == <<"h",".","m","p","4">>

\* "Tatort: Der Fall (S01/E05)"
TitleDerFall ==
  <<"T","a","t","o","r","t",":"," ","D","e","r"," ","F","a","l","l"," ",
    "(","S","0","1","/","E","0","5",")">>
\* "Tatort: Der Zeuge (S01/E06)"
TitleDerZeuge ==
  <<"T","a","t","o","r","t",":"," ","D","e","r"," ","Z","e","u","g","e"," ",
    "(","S","0","1","/","E","0","6",")">>

CatalogHits ==
  <<Hit(TopicTatort, TitleDerFall, 5400, UrlMp4),
    Hit(TopicTatort, TitleDerZeuge, 5400, UrlMp4)>>

\* the hits the catalog holds for a topic query: those whose topic contains
\* the query text
CatalogResults(query) ==
  SelectSeq(CatalogHits,
            LAMBDA h : includes(toLowerCase(h.topic), toLowerCase(query)))

\* hits of two topics that name no show: the catalog's search is fuzzy and
\* may answer a topic query with hits of unrelated topics
TopicHeuteJournal == <<"h","e","u","t","e"," ","j","o","u","r","n","a","l">>
TopicSportschau == <<"S","p","o","r","t","s","c","h","a","u">>
UnrelatedHits ==
  <<Hit(TopicHeuteJournal, TopicHeuteJournal, 1800, UrlMp4),
    Hit(TopicSportschau, TopicSportschau, 1800, UrlMp4)>>

\* searchMediathekApi answers with the catalog's hits, with hits of unrelated
\* topics, or with [] when the request fails or the status is not OK
searchMediathekApi(query) == {<<>>, CatalogResults(query), UnrelatedHits}

RECURSIVE UniqueTopics(_)
UniqueTopics(results) ==
  IF results = <<>> THEN <<>>
  ELSE LET init == UniqueTopics(SubSeq(results, 1, Len(results) - 1))
           t == results[Len(results)].topic
       IN IF \E i \in 1..Len(init) : init[i] = t THEN init ELSE Append(init, t)

\* first element of seq satisfying P, as an option
FirstWhere(seq, P(_)) ==
  IF \E i \in 1..Len(seq) : P(seq[i])
  THEN Some(seq[CHOOSE i \in 1..Len(seq) :
                  P(seq[i]) /\ \A j \in 1..(i - 1) : ~P(seq[j])])
  ELSE None

findBestMatchingTopic(results, showInfo) ==
  LET topics == UniqueTopics(results)
      german == IF IsSome(showInfo.germanName) /\ Val(showInfo.germanName) # <<>>
                THEN <<toLowerCase(Val(showInfo.germanName))>> ELSE <<>>
      named == IF showInfo.name # <<>> THEN <<toLowerCase(showInfo.name)>> ELSE <<>>
      aliasNames == SelectSeq([i \in 1..Len(showInfo.aliases) |->
                                 toLowerCase(showInfo.aliases[i])],
                              LAMBDA a : a # <<>>)
      searchNames == german \o named \o aliasNames
      Exact(topic) == \E i \in 1..Len(searchNames) :
                        toLowerCase(topic) = searchNames[i]
      Partial(topic) == \E i \in 1..Len(searchNames) :
                          \/ includes(toLowerCase(topic), searchNames[i])
                          \/ includes(searchNames[i], toLowerCase(topic))
  IN IF results = <<>> THEN None
     ELSE IF IsSome(FirstWhere(topics, Exact)) THEN FirstWhere(topics, Exact)
     ELSE IF IsSome(FirstWhere(topics, Partial)) THEN FirstWhere(topics, Partial)
     ELSE IF Len(topics) = 1 THEN Some(topics[1])
     ELSE None

(* ---- state ------------------------------------------------------------- *)
VARIABLES
  rulesetsByTopic,           \* curated index: topic -> rulesets
  generatedRulesetsByTopic,  \* generated index: topic -> rulesets
  lastFetchTime,             \* time of the last completed load
  initPromise,               \* None, or Some(load) once the first load started
  now,                       \* Date.now()
  db,                        \* rows of table GeneratedRuleset
  loads,                     \* loadRulesets invocations
  lookups,                   \* fetchSearchResultsById invocations
  genReturned,               \* history: non-null results of generateRulesetForShow
  filterCall,                \* the matching loop of an applyRulesetFilters call
  fn,                        \* a call of a function without side effects
  download,                  \* status of the rows of table Download
  downloadSemaphore,         \* permits and queue of the Semaphore
  isProcessing,              \* a processQueue loop runs
  queueLoop,                 \* the processQueue loop
  tasks,                     \* processDownload invocations
  triggers                   \* addToQueue calls suspended in their create

\* the state of the download manager
downloadVars == <<download, downloadSemaphore, isProcessing, queueLoop, tasks,
                  triggers>>

vars == <<rulesetsByTopic, generatedRulesetsByTopic, lastFetchTime,
          initPromise, now, db, loads, lookups, genReturned, filterCall, fn,
          downloadVars>>

EmptyIndex == [t \in Topics |-> <<>>]

\* no function call is followed
NoCall == [name |-> "none", arg |-> <<>>, out |-> <<>>]

(* ---- ruleset store (rulesets.ts) --------------------------------------- *)
RECURSIVE InsertByPriority(_, _)
InsertByPriority(sorted, r) ==
  IF sorted = <<>> THEN <<r>>
  ELSE IF Head(sorted).priority <= r.priority
       THEN <<Head(sorted)>> \o InsertByPriority(Tail(sorted), r)
       ELSE <<r>> \o sorted

\* Array.prototype.sort((a, b) => a.priority - b.priority), which is stable
RECURSIVE SortByPriority(_)
SortByPriority(list) ==
  IF list = <<>> THEN <<>>
  ELSE InsertByPriority(SortByPriority(SubSeq(list, 1, Len(list) - 1)),
                        list[Len(list)])

GroupByTopic(list) ==
  [t \in Topics |-> SelectSeq(list, LAMBDA r : r.topic = t)]

\* the map indexRulesets leaves in rulesetsByTopic
indexRulesets(allRulesets) ==
  [t \in Topics |-> SortByPriority(GroupByTopic(allRulesets)[t])]

convertToRuleset(dbRuleset) ==
  [id |-> dbRuleset.id, mediaId |-> dbRuleset.tvdbId,
   topic |-> dbRuleset.topic, priority |-> 0,
   filters |-> dbRuleset.filters,
   media |-> [media_id |-> dbRuleset.tvdbId,
              media_name |-> dbRuleset.showName,
              media_tvdbId |-> dbRuleset.tvdbId]]

\* prisma.generatedRuleset.findFirst({ where })
FindFirst(rows, P(_)) ==
  IF \E r \in rows : P(r) THEN Some(CHOOSE r \in rows : P(r)) ELSE None

\* getGeneratedRulesets() mapped into the per-topic lists that
\* loadGeneratedRulesets builds
GroupGenerated(rows) ==
  [t \in Topics |->
     LET row == FindFirst(rows, LAMBDA r : r.topic = t)
     IN IF IsSome(row) THEN <<convertToRuleset(Val(row))>> ELSE <<>>]

isRulesetsLoaded == \E t \in Topics : rulesetsByTopic[t] # <<>>

\* a variant of getRulesetsForTopic that puts the curated rulesets first
getRulesetsForTopicCuratedFirst(topic) ==
  rulesetsByTopic[topic] \o generatedRulesetsByTopic[topic]

\* [...generated, ...external]
getRulesetsForTopic(topic) ==
  generatedRulesetsByTopic[topic] \o rulesetsByTopic[topic]

getRulesetsForTopicAndTvdbId(topic, tvdbId) ==
  SelectSeq(getRulesetsForTopic(topic),
            LAMBDA r : r.media.media_tvdbId = tvdbId)

hasRulesetForTvdbId(tvdbId) ==
  \/ \E t \in Topics : \E i \in 1..Len(generatedRulesetsByTopic[t]) :
       generatedRulesetsByTopic[t][i].media.media_tvdbId = tvdbId
  \/ \E t \in Topics : \E i \in 1..Len(rulesetsByTopic[t]) :
       rulesetsByTopic[t][i].media.media_tvdbId = tvdbId

\* the generated index after addGeneratedRuleset(ruleset)
addGeneratedRuleset(ruleset) ==
  [generatedRulesetsByTopic EXCEPT ![ruleset.topic] = Append(@, ruleset)]

(* ---- loadRulesets invocations ------------------------------------------ *)
FreeLoadRec == [pc |-> "free", kind |-> "none", by |-> 0,
                prev |-> <<>>, next |-> <<>>, rows |-> {}]

LoadsStarted == {l \in Loads : loads[l].pc # "free"}
LoadsInFlight == {l \in Loads : loads[l].pc \notin {"free", "done"}}

\* the slot the next loadRulesets call takes, 0 when the bound is reached
NextLoad == IF LoadsStarted = Loads THEN 0
            ELSE CHOOSE l \in Loads : l \notin LoadsStarted
                                     /\ \A k \in 1..(l - 1) : k \in LoadsStarted

FirstLoadCompleted == loads[1].pc = "done"

\* loadRulesets up to its first await (the GitHub download)
StartLoad(l, kind, p) ==
  [loads EXCEPT ![l] = [FreeLoadRec EXCEPT !.pc = "fetch", !.kind = kind,
                                           !.by = p]]

\* loadRulesets has returned
EndLoad(l) ==
  [loads EXCEPT ![l] = [FreeLoadRec EXCEPT !.pc = "done", !.kind = loads[l].kind]]

\* fetchFromGitHub answers and, when it answered null, loadFromLocalFile
\* answers; with a list indexRulesets runs and loadGeneratedRulesets is
\* called, which suspends in getGeneratedRulesets; an exception of the local
\* file ends loadRulesets in its catch
LoadCuratedFrom(l, githubs, localFiles) ==
  /\ loads[l].pc = "fetch"
  /\ \E github \in githubs, localFile \in localFiles :
       LET allRulesets == IF github # None THEN github ELSE localFile
       IN IF allRulesets = None
          THEN /\ loads' = EndLoad(l)
               /\ UNCHANGED rulesetsByTopic
          ELSE /\ rulesetsByTopic' = indexRulesets(Val(allRulesets))
               /\ loads' = [loads EXCEPT
                    ![l].pc = "genRead",
                    ![l].prev = <<rulesetsByTopic, generatedRulesetsByTopic>>,
                    ![l].next = indexRulesets(Val(allRulesets))]
  /\ UNCHANGED <<generatedRulesetsByTopic, lastFetchTime, initPromise, now, downloadVars,
                 db, lookups, genReturned>>
  /\ UNCHANGED <<filterCall, fn>>

LoadCurated(l) == LoadCuratedFrom(l, GitHubOutcomes, LocalFileOutcomes)

\* the database executes the findMany of getGeneratedRulesets
GetGeneratedRulesets(l) ==
  /\ loads[l].pc = "genRead"
  /\ loads' = [loads EXCEPT ![l].pc = "genAssign", ![l].rows = db]
  /\ UNCHANGED <<rulesetsByTopic, generatedRulesetsByTopic, lastFetchTime,
                 initPromise, now, downloadVars, db, lookups, genReturned>>
  /\ UNCHANGED <<filterCall, fn>>

\* loadGeneratedRulesets resumes with the rows, rebuilds the generated map
\* and returns; loadRulesets stamps lastFetchTime
LoadGeneratedRulesets(l) ==
  /\ loads[l].pc = "genAssign"
  /\ generatedRulesetsByTopic' = GroupGenerated(loads[l].rows)
  /\ lastFetchTime' = now
  /\ loads' = EndLoad(l)
  /\ UNCHANGED <<rulesetsByTopic, initPromise, now, downloadVars, db, lookups, genReturned>>
  /\ UNCHANGED <<filterCall, fn>>

(* ---- numbers and dates in text ----------------------------------------- *)
RECURSIVE DigitsValue(_)
DigitsValue(ds) ==
  IF ds = <<>> THEN 0
  ELSE 10 * DigitsValue(SubSeq(ds, 1, Len(ds) - 1)) + DigitVal(ds[Len(ds)])

LeadingDigits(s) ==
  LET n == CHOOSE n \in 0..Len(s) :
             /\ \A i \in 1..n : IsDigit(s[i])
             /\ (n = Len(s) \/ ~IsDigit(s[n + 1]))
  IN SubSeq(s, 1, n)

RECURSIVE TrimStart(_)
TrimStart(s) == IF s # <<>> /\ s[1] = " " THEN TrimStart(Tail(s)) ELSE s

\* parseInt(s) for decimal text: leading blanks, an optional sign and the
\* longest run of digits; None is NaN
parseInt(s) ==
  LET t == TrimStart(s)
      signed == t # <<>> /\ t[1] \in {"+", "-"}
      ds == LeadingDigits(IF signed THEN Tail(t) ELSE t)
  IN IF ds = <<>> THEN None
     ELSE Some(IF signed /\ t[1] = "-" THEN 0 - DigitsValue(ds)
               ELSE DigitsValue(ds))

findEpisodeByAirDate(data, airDate) ==
  FirstWhere(data.episodes,
             LAMBDA ep : IsSome(ep.aired) /\ Val(ep.aired) = airDate)

findEpisodesByAirYear(data, year) ==
  SelectSeq(data.episodes, LAMBDA ep : IsSome(ep.aired) /\ Val(ep.aired).y = year)

findEpisodesBySeason(data, seasonNumber) ==
  SelectSeq(data.episodes, LAMBDA ep : ep.seasonNumber = seasonNumber)

findEpisodeBySeasonAndNumber(data, seasonNumber, episodeNumber) ==
  FirstWhere(data.episodes,
             LAMBDA ep : ep.seasonNumber = seasonNumber
                         /\ ep.episodeNumber = episodeNumber)

SamePair(a, b) ==
  a.seasonNumber = b.seasonNumber /\ a.episodeNumber = b.episodeNumber

\* String.prototype.split("/")
RECURSIVE SplitSlash(_)
SplitSlash(s) ==
  IF \E i \in 1..Len(s) : s[i] = "/"
  THEN LET i == CHOOSE i \in 1..Len(s) :
                  s[i] = "/" /\ \A j \in 1..(i - 1) : s[j] # "/"
       IN <<SubSeq(s, 1, i - 1)>> \o SplitSlash(SubSeq(s, i + 1, Len(s)))
  ELSE <<s>>

AllDigits(s) == s # <<>> /\ \A i \in 1..Len(s) : IsDigit(s[i])

IsLeapYear(y) == (y % 4 = 0 /\ y % 100 # 0) \/ y % 400 = 0
DaysInMonth(y, m) ==
  IF m = 2 THEN (IF IsLeapYear(y) THEN 29 ELSE 28)
  ELSE IF m \in {4, 6, 9, 11} THEN 30 ELSE 31

\* new Date(`${season}-${month}-${day}`) as a calendar day; None is an
\* Invalid Date.  Year, month and day must be decimal numbers naming a day
\* of the calendar.
DateFromParts(season, month, day) ==
  IF /\ AllDigits(season) /\ AllDigits(month) /\ AllDigits(day)
     /\ Len(month) <= 2 /\ Len(day) <= 2
     /\ DigitsValue(month) \in 1..12
     /\ DigitsValue(day) \in 1..DaysInMonth(DigitsValue(season), DigitsValue(month))
  THEN Some(AirDate(DigitsValue(season), DigitsValue(month), DigitsValue(day)))
  ELSE None

RECURSIVE AppendMissing(_, _)
AppendMissing(desired, eps) ==
  IF eps = <<>> THEN desired
  ELSE AppendMissing(
         IF \E i \in 1..Len(desired) : SamePair(desired[i], Head(eps))
         THEN desired ELSE Append(desired, Head(eps)),
         Tail(eps))

\* getDesiredEpisodes: None when no season was asked for, else Some(list)
getDesiredEpisodes(tvdbData, season, episodeNumber) ==
  IF ~IsSome(season) \/ Val(season) = <<>> THEN None
  ELSE
    LET sn == Val(season)
        seasonNum == parseInt(sn)
    IN IF ~IsSome(episodeNumber) \/ Val(episodeNumber) = <<>>
       THEN LET bySeason == IF IsSome(seasonNum)
                            THEN findEpisodesBySeason(tvdbData, Val(seasonNum))
                            ELSE <<>>
                isYear == /\ Len(sn) = 4 /\ IsSome(seasonNum)
                          /\ Val(seasonNum) >= 1900 /\ Val(seasonNum) <= 2100
            IN Some(IF isYear
                    THEN AppendMissing(bySeason,
                                       findEpisodesByAirYear(tvdbData, Val(seasonNum)))
                    ELSE bySeason)
       ELSE LET en == Val(episodeNumber)
            IN IF Len(sn) = 4 /\ includes(en, <<"/">>)
               THEN LET parts == SplitSlash(en)
                        date == IF Len(parts) = 2
                                THEN DateFromParts(sn, parts[1], parts[2])
                                ELSE None
                        ep == IF IsSome(date)
                              THEN findEpisodeByAirDate(tvdbData, Val(date))
                              ELSE None
                    IN Some(ep)
               ELSE LET episodeNum == parseInt(en)
                        ep == IF IsSome(seasonNum) /\ IsSome(episodeNum)
                              THEN findEpisodeBySeasonAndNumber(
                                     tvdbData, Val(seasonNum), Val(episodeNum))
                              ELSE None
                    IN Some(ep)

(* ---- regular expressions of rulesets ------------------------------------ *)
DigitChars == {Digits[k] : k \in 1..10}
WordChars  == DigitChars \cup {UpperChars[k] : k \in 1..26}
                         \cup {LowerChars[k] : k \in 1..26} \cup {"_"}

\* patterns the ruleset generator writes, a pattern a curated file can hold
\* that captures word characters, one without a capture group and one that
\* does not compile
ReSeason4    == "(?<=S)(\\d{1,4})(?=/E)"
ReEpisode4   == "(?<=E)(\\d{1,4})(?=\\))"
ReSeasonWord == "(?<=S)(\\w{1,4})(?=/E)"
ReNoGroup    == "S\\d{2}"
ReUnclosed   == "(\\d{2}"

\* a compiled pattern: the literal before the repeated class (looked behind,
\* or consumed), the class and its repetition bounds, the literal looked
\* ahead for, and whether the repeated class is a capture group
Re(before, consumed, class, min, max, ahead, group) ==
  [before |-> before, consumed |-> consumed, class |-> class, min |-> min,
   max |-> max, ahead |-> ahead, group |-> group]

\* new RegExp(pattern); None is a SyntaxError
RegExp(pattern) ==
  CASE pattern = ReSeason2    -> Some(Re(<<"S">>, FALSE, DigitChars, 2, 2, <<"/","E">>, TRUE))
    [] pattern = ReEpisode2   -> Some(Re(<<"E">>, FALSE, DigitChars, 2, 2, <<")">>, TRUE))
    [] pattern = ReSeason4    -> Some(Re(<<"S">>, FALSE, DigitChars, 1, 4, <<"/","E">>, TRUE))
    [] pattern = ReEpisode4   -> Some(Re(<<"E">>, FALSE, DigitChars, 1, 4, <<")">>, TRUE))
    [] pattern = ReSeasonWord -> Some(Re(<<"S">>, FALSE, WordChars, 1, 4, <<"/","E">>, TRUE))
    [] pattern = ReNoGroup    -> Some(Re(<<"S">>, TRUE, DigitChars, 2, 2, <<>>, FALSE))
    [] OTHER -> None

\* String.prototype.startsWith(lit, i - 1)
StartsAt(text, i, lit) ==
  i + Len(lit) - 1 <= Len(text) /\ SubSeq(text, i, i + Len(lit) - 1) = lit

\* String.prototype.match(re) for a pattern without the g flag: None, or the
\* array <<match[0], match[1]>> of the leftmost match, the repetition taken
\* as long as the rest of the pattern allows
ReFits(re, text, i, n) ==
  /\ i - Len(re.before) >= 1
  /\ SubSeq(text, i - Len(re.before), i - 1) = re.before
  /\ i + n - 1 <= Len(text)
  /\ \A k \in i..(i + n - 1) : text[k] \in re.class
  /\ StartsAt(text, i + n, re.ahead)

\* the places <<i, n>> where the repetition can start and how long it can be
ReCandidates(re, text) ==
  {c \in (1..(Len(text) + 1)) \X (re.min..re.max) : ReFits(re, text, c[1], c[2])}

ReLeftmost(cands) ==
  CHOOSE c \in cands :
    \A d \in cands : c[1] < d[1] \/ (c[1] = d[1] /\ c[2] >= d[2])

ReGroups(re, captured) ==
  IF re.group
  THEN <<(IF re.consumed THEN re.before \o captured ELSE captured), captured>>
  ELSE <<(IF re.consumed THEN re.before \o captured ELSE captured)>>

ReResult(re, text, c) == ReGroups(re, SubSeq(text, c[1], c[1] + c[2] - 1))

ReMatchAmong(re, text, cands) ==
  IF cands = {} THEN None ELSE Some(ReResult(re, text, ReLeftmost(cands)))

ReMatch(re, text) == ReMatchAmong(re, text, ReCandidates(re, text))

(* ---- matching a catalog hit (mediathek.ts) ------------------------------ *)
\* "Trailer", "Outtakes:", "(klare Sprache)"
SKIP_KEYWORDS ==
  << <<"T","r","a","i","l","e","r">>,
     <<"O","u","t","t","a","k","e","s",":">>,
     <<"(","k","l","a","r","e"," ","S","p","r","a","c","h","e",")">> >>

ExtM3u8 == <<".","m","3","u","8">>

shouldSkipItem(item, minDuration) ==
  \/ endsWith(item.url_video, ExtM3u8)
  \/ \E k \in 1..Len(SKIP_KEYWORDS) : includes(item.title, SKIP_KEYWORDS[k])
  \/ (minDuration > 0 /\ item.duration < minDuration)

\* Number.prototype.toString of a natural number
RECURSIVE NumToString(_)
NumToString(n) ==
  IF n < 10 THEN <<Digits[n + 1]>>
  ELSE NumToString(n \div 10) \o <<Digits[(n % 10) + 1]>>

\* the fields a modelled hit has; any other name gives ""
getFieldValue(item, fieldName) ==
  CASE fieldName = "topic"     -> item.topic
    [] fieldName = "title"     -> item.title
    [] fieldName = "timestamp" -> NumToString(item.filmlisteTimestamp)
    [] fieldName = "duration"  -> NumToString(item.duration)
    [] fieldName = "size"      -> NumToString(item.size)
    [] fieldName = "url_video" -> item.url_video
    [] OTHER -> <<>>

\* parseFloat for text without fraction or exponent; None is NaN
parseFloat(s) == parseInt(s)

filterMatches(item, filter) ==
  LET attributeValue == getFieldValue(item, filter.attribute)
      filterValue == filter.value
      attrNum == parseFloat(attributeValue)
      filterNum == parseFloat(filterValue)
  IN CASE filter.type = "ExactMatch" ->
            toLowerCase(attributeValue) = toLowerCase(filterValue)
       [] filter.type = "Contains" ->
            includes(toLowerCase(attributeValue), toLowerCase(filterValue))
       [] filter.type = "GreaterThan" ->
            IsSome(attrNum) /\ IsSome(filterNum) /\ Val(attrNum) > Val(filterNum) * 60
       [] filter.type = "LessThan" ->
            IsSome(attrNum) /\ IsSome(filterNum) /\ Val(attrNum) < Val(filterNum) * 60
       [] OTHER -> FALSE

\* match[1] of the title, or None (null)
FirstGroup(match) ==
  IF IsSome(match) /\ Len(Val(match)) > 1 THEN Some(Val(match)[2]) ELSE None

\* fieldValue.match(pattern) inside try / catch, then match[1]
MatchOrNull(fieldValue, re) ==
  IF fieldValue = <<>> \/ ~IsSome(re) THEN None
  ELSE FirstGroup(ReMatch(Val(re), fieldValue))

extractValueUsingRegex(item, pattern) ==
  IF ~IsSome(pattern) \/ Val(pattern) = "" THEN None
  ELSE MatchOrNull(getFieldValue(item, "title"), RegExp(Val(pattern)))

\* tvdbData is what getShowInfoByTvdbId(ruleset.media.media_tvdbId) gave
\* the MatchedEpisodeInfo of matchesSeasonAndEpisode, or null
EpisodeInfo(item, ruleset, tvdbData, season, episode, matchedEpisode) ==
  IF ~IsSome(matchedEpisode) THEN None
  ELSE Some([episode |-> Val(matchedEpisode),
             item |-> item,
             showName |-> tvdbData.name,
             matchedTitle |-> <<"S">> \o season \o <<"E">> \o episode,
             tvdbId |-> ruleset.media.media_tvdbId])

\* matchesSeasonAndEpisode from parseInt on
MatchNumbers(item, ruleset, tvdbData, season, episode, seasonNum, episodeNum) ==
  IF ~IsSome(seasonNum) \/ ~IsSome(episodeNum) THEN None
  ELSE EpisodeInfo(item, ruleset, tvdbData, season, episode,
                   findEpisodeBySeasonAndNumber(tvdbData, Val(seasonNum),
                                                Val(episodeNum)))

\* matchesSeasonAndEpisode from if (!season || !episode) on
MatchCaptures(item, ruleset, tvdbData, season, episode) ==
  IF \/ ~IsSome(season) \/ Val(season) = <<>>
     \/ ~IsSome(episode) \/ Val(episode) = <<>>
  THEN None
  ELSE MatchNumbers(item, ruleset, tvdbData, Val(season), Val(episode),
                    parseInt(Val(season)), parseInt(Val(episode)))

matchesSeasonAndEpisode(item, ruleset, tvdbData) ==
  IF ~IsSome(tvdbData) \/ Val(tvdbData).episodes = <<>> THEN None
  ELSE MatchCaptures(item, ruleset, Val(tvdbData),
                     extractValueUsingRegex(item, ruleset.seasonRegex),
                     extractValueUsingRegex(item, ruleset.episodeRegex))

\* the switch on ruleset.matchingStrategy; a ruleset of the matching
\* specification names SeasonAndEpisodeNumber or a strategy the switch has
\* no case for
applyStrategy(item, ruleset, tvdbData) ==
  IF ruleset.matchingStrategy = SeasonAndEpisodeNumber
  THEN matchesSeasonAndEpisode(item, ruleset, tvdbData)
  ELSE None

\* the loop over the rulesets of one hit: the match it ends with, whether
\* the hit was spliced out of unmatchedItems, and the strategy calls made
StrategyCall(item, ruleset, tvdbData, matchInfo) ==
  [item |-> item, ruleset |-> ruleset, tvdbData |-> tvdbData,
   matchInfo |-> matchInfo]

\* a variant of AfterStrategy without the break: the later rulesets are
\* tried after a match as well, and the last match is the one kept
AfterStrategyNoBreak(call, rest) ==
  [rest EXCEPT !.matchInfo = IF IsSome(@) THEN @ ELSE call.matchInfo,
               !.spliced = @ \/ ~IsSome(call.matchInfo),
               !.calls = <<call>> \o @]

\* if (matchInfo) { push; break } else { splice }, rest being what the
\* later rulesets give
AfterStrategy(call, rest) ==
  IF IsSome(call.matchInfo)
  THEN [matchInfo |-> call.matchInfo, spliced |-> FALSE, calls |-> <<call>>]
  ELSE [rest EXCEPT !.spliced = TRUE, !.calls = <<call>> \o @]

RECURSIVE ForRulesets(_, _, _)
ForRulesets(item, rulesets, tvdbData) ==
  IF rulesets = <<>>
  THEN [matchInfo |-> None, spliced |-> FALSE, calls |-> <<>>]
  ELSE IF \E k \in 1..Len(Head(rulesets).filters) :
            ~filterMatches(item, Head(rulesets).filters[k])
  THEN [ForRulesets(item, Tail(rulesets), tvdbData) EXCEPT !.spliced = TRUE]
  ELSE AfterStrategy(
         StrategyCall(item, Head(rulesets), tvdbData,
                      applyStrategy(item, Head(rulesets), tvdbData)),
         ForRulesets(item, Tail(rulesets), tvdbData))

\* one fetchSearchResultsById invocation followed through its catalog
\* response, the loop of applyRulesetFilters and its return: the request,
\* the locals, the strategy calls made and the response returned
NoFilterCall ==
  [pc |-> "none", tvdbId |-> 0, minDuration |-> 0, results |-> <<>>,
   position |-> 0, matchedEpisodes |-> <<>>, unmatchedItems |-> <<>>,
   calls |-> <<>>, season |-> None, episodeNumber |-> None,
   api |-> "none", desiredEpisodes |-> None, response |-> None]

\* unmatchedItems.splice(unmatchedItems.indexOf(item), 1)
Splice(unmatchedItems, i) == SelectSeq(unmatchedItems, LAMBDA j : j # i)

\* the frame after the rulesets of the hit at call.position gave out
AfterItem(call, out) ==
  [call EXCEPT
     !.position = @ + 1,
     !.matchedEpisodes = IF IsSome(out.matchInfo)
                         THEN Append(@, Val(out.matchInfo)) ELSE @,
     !.unmatchedItems = IF out.spliced THEN Splice(@, call.position) ELSE @,
     !.calls = @ \o out.calls]

\* one iteration of for (const item of results); fetched tells whether
\* getShowInfoByTvdbId delivers the show in this iteration
MatchItem(fetched) ==
  /\ filterCall.pc = "loop"
  /\ filterCall.position <= Len(filterCall.results)
  /\ filterCall' =
       IF shouldSkipItem(filterCall.results[filterCall.position],
                         filterCall.minDuration)
       THEN [filterCall EXCEPT
               !.position = @ + 1,
               !.unmatchedItems = Splice(@, filterCall.position)]
       ELSE AfterItem(
              filterCall,
              ForRulesets(filterCall.results[filterCall.position],
                          getRulesetsForTopicAndTvdbId(
                            filterCall.results[filterCall.position].topic,
                            filterCall.tvdbId),
                          IF fetched THEN Some(TvdbData(filterCall.tvdbId))
                          ELSE None))
  /\ UNCHANGED <<rulesetsByTopic, generatedRulesetsByTopic, lastFetchTime,
                 initPromise, now, downloadVars, db, loads, lookups, genReturned, fn>>

\* a variant of shortCircuit that never returns early
shortCircuitNever(season, desiredEpisodes) == FALSE

\* season && desiredEpisodes?.length === 0
shortCircuit(season, desiredEpisodes) ==
  /\ IsSome(season) /\ Val(season) # <<>>
  /\ IsSome(desiredEpisodes) /\ Val(desiredEpisodes) = <<>>

\* a variant of IsDesired that compares the season only
IsDesiredSeason(matched, desiredEpisodes) ==
  \E k \in 1..Len(desiredEpisodes) :
    desiredEpisodes[k].seasonNumber = matched.episode.seasonNumber

\* desiredEpisodes.some(desired => same season and episode number)
IsDesired(matched, desiredEpisodes) ==
  \E k \in 1..Len(desiredEpisodes) :
    /\ desiredEpisodes[k].seasonNumber = matched.episode.seasonNumber
    /\ desiredEpisodes[k].episodeNumber = matched.episode.episodeNumber

applyDesiredEpisodeFilter(matchedEpisodes, desiredEpisodes) ==
  IF ~IsSome(desiredEpisodes) THEN matchedEpisodes
  ELSE SelectSeq(matchedEpisodes,
                 LAMBDA matched : IsDesired(matched, Val(desiredEpisodes)))

\* serializeRss(getEmptyRssResult()): a channel without items
EmptyRss == Some(<<>>)

\* convertItemsToRss over the items generateRssItems makes of the matched
\* desired episodes, kept as the episodes the items are made of
convertItemsToRss(matchedDesiredEpisodes) == Some(matchedDesiredEpisodes)

\* a variant of CatalogFailed in which a failed catalog call raises
CatalogFailedRaise(call) == [call EXCEPT !.pc = "threw"]

\* if (!apiResponse) return serializeRss(getEmptyRssResult()), and the same
\* in the catch of JSON.parse
CatalogFailed(call) == [call EXCEPT !.pc = "returned", !.response = EmptyRss]

\* fetchSearchResultsById from its call to the loop of applyRulesetFilters:
\* the short circuit, the catalog response (api is "failed" for a transport
\* error or a status that is not OK, "unparsable" for a body JSON.parse
\* rejects, "json" for a body with the list results) and the copy of the
\* list into unmatchedItems
MatchStart(api, results) ==
  /\ filterCall.pc = "called"
  /\ api = "json" \/ results = <<>>
  /\ LET desiredEpisodes ==
           getDesiredEpisodes(TvdbData(filterCall.tvdbId), filterCall.season,
                              filterCall.episodeNumber)
         call == [filterCall EXCEPT !.desiredEpisodes = desiredEpisodes]
     IN filterCall' =
          IF shortCircuit(filterCall.season, desiredEpisodes)
          THEN [call EXCEPT !.pc = "returned", !.response = EmptyRss]
          ELSE IF api # "json"
          THEN CatalogFailed([call EXCEPT !.api = api])
          ELSE [call EXCEPT !.pc = "loop", !.api = api, !.results = results,
                            !.position = 1,
                            !.unmatchedItems = [i \in 1..Len(results) |-> i]]
  /\ UNCHANGED <<rulesetsByTopic, generatedRulesetsByTopic, lastFetchTime,
                 initPromise, now, downloadVars, db, loads, lookups, genReturned, fn>>

\* return { matchedEpisodes, unmatchedItems }, then applyDesiredEpisodeFilter
\* and the response of fetchSearchResultsById
MatchReturn ==
  /\ filterCall.pc = "loop"
  /\ filterCall.position > Len(filterCall.results)
  /\ filterCall' =
       [filterCall EXCEPT
          !.pc = "returned",
          !.response = convertItemsToRss(
                         applyDesiredEpisodeFilter(filterCall.matchedEpisodes,
                                                   filterCall.desiredEpisodes))]
  /\ UNCHANGED <<rulesetsByTopic, generatedRulesetsByTopic, lastFetchTime,
                 initPromise, now, downloadVars, db, loads, lookups, genReturned, fn>>

(* ---- title normalisation (mediathek.ts) ---------------------------------- *)
\* .replace(/x/g, to) for a single character x
RECURSIVE ReplaceChar(_, _, _)
ReplaceChar(s, c, to) ==
  IF s = <<>> THEN <<>>
  ELSE (IF Head(s) = c THEN to ELSE <<Head(s)>>) \o ReplaceChar(Tail(s), c, to)

\* the characters of the class [/:;,""''@#?$%^*+=!|<>,()]
RemovedChars ==
  {"/", ":", ";", ",", "\"", "'", "@", "#", "?", "$", "%", "^", "*", "+", "=",
   "!", "|", "<", ">", "(", ")"}

\* the characters \s matches
WhiteSpace == {" ", "\t"}

\* .replace(/\s+/g, "."): every maximal run of white space becomes one "."
RECURSIVE ReplaceSpaceRuns(_)
ReplaceSpaceRuns(s) ==
  IF s = <<>> THEN <<>>
  ELSE IF Head(s) \in WhiteSpace
  THEN IF Len(s) > 1 /\ s[2] \in WhiteSpace
       THEN ReplaceSpaceRuns(Tail(s))
       ELSE <<".">> \o ReplaceSpaceRuns(Tail(s))
  ELSE <<Head(s)>> \o ReplaceSpaceRuns(Tail(s))

\* .replace(/\.\./g, "."): one pass from the left, each ".." found after
\* the end of the previous one becomes "."
RECURSIVE ReplaceDotDot(_)
ReplaceDotDot(s) ==
  IF Len(s) < 2 THEN s
  ELSE IF s[1] = "." /\ s[2] = "."
  THEN <<".">> \o ReplaceDotDot(SubSeq(s, 3, Len(s)))
  ELSE <<s[1]>> \o ReplaceDotDot(Tail(s))

Umlauts(title) ==
  ReplaceChar(ReplaceChar(ReplaceChar(ReplaceChar(ReplaceChar(ReplaceChar(
    ReplaceChar(title, "ä", <<"a","e">>), "ö", <<"o","e">>), "ü", <<"u","e">>),
    "ß", <<"s","s">>), "Ä", <<"A","e">>), "Ö", <<"O","e">>), "Ü", <<"U","e">>)

formatTitle(title) ==
  ReplaceDotDot(ReplaceSpaceRuns(
    SelectSeq(ReplaceChar(Umlauts(title), "&", <<"a","n","d">>),
              LAMBDA c : c \notin RemovedChars)))

\* formatTitle(...).toLowerCase(), the form in which the title strategies
\* compare titles
NormalizeTitle(title) == toLowerCase(formatTitle(title))

\* the function call followed in fn is applied once more to its last output
ApplyNormalizeTitle ==
  /\ fn.name = "NormalizeTitle"
  /\ Len(fn.out) < 2
  /\ fn' = [fn EXCEPT !.out = Append(@, NormalizeTitle(
                                         IF @ = <<>> THEN fn.arg ELSE @[Len(@)]))]
  /\ UNCHANGED <<rulesetsByTopic, generatedRulesetsByTopic, lastFetchTime,
                 initPromise, now, downloadVars, db, loads, lookups, genReturned, filterCall>>

(* ---- dates in titles (mediathek.ts) -------------------------------------- *)
\* the keys of germanMonths in the order of their values 0..11
germanMonths ==
  << <<"j","a","n","u","a","r">>,
     <<"f","e","b","r","u","a","r">>,
     <<"m","ä","r","z">>,
     <<"a","p","r","i","l">>,
     <<"m","a","i">>,
     <<"j","u","n","i">>,
     <<"j","u","l","i">>,
     <<"a","u","g","u","s","t">>,
     <<"s","e","p","t","e","m","b","e","r">>,
     <<"o","k","t","o","b","e","r">>,
     <<"n","o","v","e","m","b","e","r">>,
     <<"d","e","z","e","m","b","e","r">> >>

\* new Date(year, monthIndex, day) as a calendar day of the server's time
\* zone: years 0..99 count from 1900, a month index outside 0..11 and a day
\* outside the month carry into the neighbouring year and month
RECURSIVE NewDate(_, _, _)
NewDate(year, monthIndex, day) ==
  IF year \in 0..99 THEN NewDate(1900 + year, monthIndex, day)
  ELSE IF monthIndex > 11 THEN NewDate(year + 1, monthIndex - 12, day)
  ELSE IF monthIndex < 0 THEN NewDate(year - 1, monthIndex + 12, day)
  ELSE IF day > DaysInMonth(year, monthIndex + 1)
  THEN NewDate(year, monthIndex + 1, day - DaysInMonth(year, monthIndex + 1))
  ELSE IF day < 1
  THEN IF monthIndex = 0
       THEN NewDate(year - 1, 11, day + 31)
       ELSE NewDate(year, monthIndex - 1, day + DaysInMonth(year, monthIndex))
  ELSE AirDate(year, monthIndex + 1, day)

AllWord(s) == s # <<>> /\ \A i \in 1..Len(s) : s[i] \in WordChars

\* dateString.match(/^(\d{1,2})\. (\w+) (\d{4})$/): the three groups, or None
MatchDayMonthYear(s) ==
  LET Fits(d) ==
        /\ Len(s) >= d + 8
        /\ AllDigits(SubSeq(s, 1, d))
        /\ SubSeq(s, d + 1, d + 2) = <<".", " ">>
        /\ AllWord(SubSeq(s, d + 3, Len(s) - 5))
        /\ s[Len(s) - 4] = " "
        /\ AllDigits(SubSeq(s, Len(s) - 3, Len(s)))
  IN IF \E d \in 1..2 : Fits(d)
     THEN LET d == CHOOSE d \in 1..2 : Fits(d)
          IN Some(<<SubSeq(s, 1, d), SubSeq(s, d + 3, Len(s) - 5),
                    SubSeq(s, Len(s) - 3, Len(s))>>)
     ELSE None

\* a match of digit groups of the lengths lens, with the text sep between
\* them, over the whole of s: the groups, or None
RECURSIVE MatchDigitGroups(_, _, _)
MatchDigitGroups(s, lens, sep) ==
  IF lens = <<>> THEN (IF s = <<>> THEN Some(<<>>) ELSE None)
  ELSE LET n == Head(lens)
           skip == IF Len(lens) > 1 THEN Len(sep) ELSE 0
       IN IF /\ Len(s) >= n + skip
             /\ AllDigits(SubSeq(s, 1, n))
             /\ SubSeq(s, n + 1, n + skip) = SubSeq(sep, 1, skip)
          THEN LET rest == MatchDigitGroups(SubSeq(s, n + skip + 1, Len(s)),
                                            Tail(lens), sep)
               IN IF IsSome(rest)
                  THEN Some(<<SubSeq(s, 1, n)>> \o Val(rest))
                  ELSE None
          ELSE None

\* germanMonths[name.toLowerCase()], None for undefined
MonthIndex(name) ==
  IF \E k \in 1..12 : germanMonths[k] = toLowerCase(name)
  THEN Some((CHOOSE k \in 1..12 : germanMonths[k] = toLowerCase(name)) - 1)
  ELSE None

\* the three numeric formats of tryParseDate, tried after "d. MMMM yyyy"
ParseNumericDate(dateString) ==
  LET match2 == MatchDigitGroups(dateString, <<2, 2, 4>>, <<".">>)
      match3 == MatchDigitGroups(dateString, <<4, 2, 2>>, <<"-">>)
      match4 == MatchDigitGroups(dateString, <<4, 2, 2>>, <<>>)
      Num(t) == DigitsValue(t)
  IN IF IsSome(match2)
     THEN Some(NewDate(Num(Val(match2)[3]), Num(Val(match2)[2]) - 1,
                       Num(Val(match2)[1])))
     ELSE IF IsSome(match3)
     THEN Some(NewDate(Num(Val(match3)[1]), Num(Val(match3)[2]) - 1,
                       Num(Val(match3)[3])))
     ELSE IF IsSome(match4)
     THEN Some(NewDate(Num(Val(match4)[1]), Num(Val(match4)[2]) - 1,
                       Num(Val(match4)[3])))
     ELSE None

\* the Date tryParseDate returns as a calendar day, None for null
tryParseDate(dateString) ==
  LET match1 == MatchDayMonthYear(dateString)
  IN IF IsSome(match1) /\ IsSome(MonthIndex(Val(match1)[2]))
     THEN Some(NewDate(DigitsValue(Val(match1)[3]),
                       Val(MonthIndex(Val(match1)[2])),
                       DigitsValue(Val(match1)[1])))
     ELSE ParseNumericDate(dateString)

\* tryParseDate is applied to the text of the call followed in fn
ApplyTryParseDate ==
  /\ fn.name = "tryParseDate"
  /\ fn.out = <<>>
  /\ fn' = [fn EXCEPT !.out = <<tryParseDate(fn.arg.text)>>]
  /\ UNCHANGED <<rulesetsByTopic, generatedRulesetsByTopic, lastFetchTime,
                 initPromise, now, downloadVars, db, loads, lookups, genReturned, filterCall>>

(* ---- strategy detection of the ruleset generator (part_005) -------------- *)
\* A pattern of the generator is a sequence of atoms: a character of a class
\* repeated min to max times (max -1: any number of times), any character
\* repeated likewise, a word boundary, or a look-behind that forbids a
\* character.  RegExp.prototype.test asks whether some match exists, so
\* the order in which repetitions are tried plays no part.
Rep(class, min, max) == <<[kind |-> "class", class |-> class, min |-> min, max |-> max]>>
AnyRep(min, max) == <<[kind |-> "any", class |-> {}, min |-> min, max |-> max]>>
WordBoundary == <<[kind |-> "b", class |-> {}, min |-> 0, max |-> 0]>>
NotAfter(c) == <<[kind |-> "notAfter", class |-> {c}, min |-> 0, max |-> 0]>>
Lit(text) == [k \in 1..Len(text) |->
               [kind |-> "class", class |-> {text[k]}, min |-> 1, max |-> 1]]

IsWordAt(text, i) == i >= 1 /\ i <= Len(text) /\ text[i] \in WordChars

\* the atom, a repetition, matches the n characters of text from i on
RepFits(atom, text, i, n) ==
  /\ n >= atom.min
  /\ atom.max = -1 \/ n <= atom.max
  /\ i + n - 1 <= Len(text)
  /\ atom.kind = "any" \/ \A k \in i..(i + n - 1) : text[k] \in atom.class

\* the atoms match a stretch of text that begins at position i
RECURSIVE MatchFrom(_, _, _)
MatchFrom(atoms, text, i) ==
  IF atoms = <<>> THEN TRUE
  ELSE IF Head(atoms).kind = "b"
  THEN IsWordAt(text, i - 1) # IsWordAt(text, i) /\ MatchFrom(Tail(atoms), text, i)
  ELSE IF Head(atoms).kind = "notAfter"
  THEN ~(i > 1 /\ text[i - 1] \in Head(atoms).class)
       /\ MatchFrom(Tail(atoms), text, i)
  ELSE \E n \in 0..(Len(text) - i + 1) :
         RepFits(Head(atoms), text, i, n) /\ MatchFrom(Tail(atoms), text, i + n)

\* pattern.test(text); a pattern with the flag i is written in lower case
Test(atoms, ignoreCase, text) ==
  \E i \in 1..(Len(text) + 1) :
    MatchFrom(atoms, IF ignoreCase THEN toLowerCase(text) ELSE text, i)

Pattern(atoms, ignoreCase) == [atoms |-> atoms, ignoreCase |-> ignoreCase]

\* /\(S(\d{1,4})\/E(\d{1,4})\)/
PatParenSE ==
  Pattern(Lit(<<"(","S">>) \o Rep(DigitChars, 1, 4) \o Lit(<<"/","E">>)
            \o Rep(DigitChars, 1, 4) \o Lit(<<")">>), FALSE)
\* /\bS(\d{1,4})E(\d{1,4})\b/
PatPlainSE ==
  Pattern(WordBoundary \o Lit(<<"S">>) \o Rep(DigitChars, 1, 4) \o Lit(<<"E">>)
            \o Rep(DigitChars, 1, 4) \o WordBoundary, FALSE)
\* /Staffel\s*(\d+).*Folge\s*(\d+)/i
PatStaffelFolge ==
  Pattern(Lit(<<"s","t","a","f","f","e","l">>) \o Rep(WhiteSpace, 0, -1)
            \o Rep(DigitChars, 1, -1) \o AnyRep(0, -1) \o Lit(<<"f","o","l","g","e">>)
            \o Rep(WhiteSpace, 0, -1) \o Rep(DigitChars, 1, -1), TRUE)
\* /Staffel\s*(\d+).*Episode\s*(\d+)/i
PatStaffelEpisode ==
  Pattern(Lit(<<"s","t","a","f","f","e","l">>) \o Rep(WhiteSpace, 0, -1)
            \o Rep(DigitChars, 1, -1) \o AnyRep(0, -1)
            \o Lit(<<"e","p","i","s","o","d","e">>)
            \o Rep(WhiteSpace, 0, -1) \o Rep(DigitChars, 1, -1), TRUE)
SEASON_EPISODE_PATTERNS ==
  <<PatParenSE, PatPlainSE, PatStaffelFolge, PatStaffelEpisode>>

\* \d{1,2}\.\s*\w+\s*\d{4} and \d{1,2}\.\d{1,2}\.\d{4}
DayMonthNameYear ==
  Rep(DigitChars, 1, 2) \o Lit(<<".">>) \o Rep(WhiteSpace, 0, -1)
    \o Rep(WordChars, 1, -1) \o Rep(WhiteSpace, 0, -1) \o Rep(DigitChars, 4, 4)
DayMonthYear ==
  Rep(DigitChars, 1, 2) \o Lit(<<".">>) \o Rep(DigitChars, 1, 2) \o Lit(<<".">>)
    \o Rep(DigitChars, 4, 4)
Vom == Lit(<<"v","o","m">>) \o Rep(WhiteSpace, 1, -1)

PatVomNamed == Pattern(Vom \o DayMonthNameYear, FALSE)
PatVomNumeric == Pattern(Vom \o DayMonthYear, FALSE)
PatDateNumeric == Pattern(WordBoundary \o DayMonthYear \o WordBoundary, FALSE)
PatDateNamed == Pattern(WordBoundary \o DayMonthNameYear \o WordBoundary, FALSE)
DATE_PATTERNS == <<PatVomNamed, PatVomNumeric, PatDateNumeric, PatDateNamed>>

\* word\s*(\d+) with the flag i
Numbered(word) ==
  Lit(word) \o Rep(WhiteSpace, 0, -1) \o Rep(DigitChars, 1, -1)

PatEpisode == Pattern(Numbered(<<"e","p","i","s","o","d","e">>), TRUE)
PatFolge == Pattern(Numbered(<<"f","o","l","g","e">>), TRUE)
PatFolgeNotAfterSlash ==
  Pattern(NotAfter("/") \o Numbered(<<"f","o","l","g","e">>), TRUE)
PatTeil == Pattern(Numbered(<<"t","e","i","l">>), TRUE)
ABSOLUTE_EPISODE_PATTERNS == <<PatEpisode, PatFolgeNotAfterSlash, PatTeil>>

\* patterns.some(pattern => pattern.test(title))
TestAny(patterns, title) ==
  \E k \in 1..Len(patterns) :
    Test(patterns[k].atoms, patterns[k].ignoreCase, title)

startsWith(s, prefix) ==
  Len(prefix) <= Len(s) /\ SubSeq(s, 1, Len(prefix)) = prefix

\* results.slice(0, n)
Slice(results, n) == SubSeq(results, 1, IF Len(results) < n THEN Len(results) ELSE n)

\* how many of the titles satisfy P
CountWhere(titles, P(_)) == Cardinality({k \in 1..Len(titles) : P(titles[k])})

\* analyzeResults over the titles of the topic's hits
analyzeResults(titles, topic) ==
  LET sample == Slice(titles, 15)
  IN [seasonEpisodeCount |->
        CountWhere(sample, LAMBDA t : TestAny(SEASON_EPISODE_PATTERNS, t)),
      dateCount |->
        CountWhere(sample, LAMBDA t : TestAny(DATE_PATTERNS, t)),
      absoluteEpisodeCount |->
        CountWhere(sample, LAMBDA t : TestAny(ABSOLUTE_EPISODE_PATTERNS, t)),
      topicPrefixCount |->
        CountWhere(sample, LAMBDA t : startsWith(toLowerCase(t), toLowerCase(topic))),
      colonSeparatorCount |->
        CountWhere(sample, LAMBDA t : includes(t, <<":">>)
                                       \/ includes(t, <<" ","-"," ">>))]

\* a variant of StrategyOf in which a season and episode count that equals
\* the date count wins
StrategyOfTie(analysis, total) ==
  IF /\ analysis.seasonEpisodeCount >= 3
     /\ analysis.seasonEpisodeCount >= analysis.dateCount
  THEN SeasonAndEpisodeNumber
  ELSE IF /\ analysis.dateCount >= 3
          /\ analysis.dateCount > analysis.seasonEpisodeCount
  THEN ItemTitleEqualsAirdate
  ELSE IF analysis.absoluteEpisodeCount >= 3
  THEN "ByAbsoluteEpisodeNumber"
  ELSE IF /\ analysis.topicPrefixCount >= 3
          /\ 10 * analysis.colonSeparatorCount >= 3 * total
  THEN ItemTitleExact
  ELSE ItemTitleIncludes

\* the strategy detectMatchingStrategy returns for an analysis of total
\* sampled titles
StrategyOf(analysis, total) ==
  IF /\ analysis.seasonEpisodeCount >= 3
     /\ analysis.seasonEpisodeCount > analysis.dateCount
  THEN SeasonAndEpisodeNumber
  ELSE IF /\ analysis.dateCount >= 3
          /\ analysis.dateCount > analysis.seasonEpisodeCount
  THEN ItemTitleEqualsAirdate
  ELSE IF analysis.absoluteEpisodeCount >= 3
  THEN "ByAbsoluteEpisodeNumber"
  ELSE IF /\ analysis.topicPrefixCount >= 3
          /\ 10 * analysis.colonSeparatorCount >= 3 * total
  THEN ItemTitleExact
  ELSE ItemTitleIncludes

detectMatchingStrategy(titles, topic) ==
  IF titles = <<>> THEN ItemTitleIncludes
  ELSE StrategyOf(analyzeResults(titles, topic), Len(Slice(titles, 15)))

Patterns(episodeRegex, seasonRegex, titleRegexRules) ==
  [episodeRegex |-> episodeRegex, seasonRegex |-> seasonRegex,
   titleRegexRules |-> titleRegexRules]

\* the first of the titles, in order, for which Choice gives patterns
RECURSIVE FirstPatterns(_, _, _)
FirstPatterns(titles, Choice(_), default) ==
  IF titles = <<>> THEN default
  ELSE IF IsSome(Choice(Head(titles))) THEN Val(Choice(Head(titles)))
  ELSE FirstPatterns(Tail(titles), Choice, default)

\* the body of the loop of generateRegexPatterns for SeasonAndEpisodeNumber
SeasonEpisodeChoice(title) ==
  IF Test(PatParenSE.atoms, FALSE, title)
  THEN Some(Patterns("(?<=E)(\\d{1,4})(?=\\))", "(?<=S)(\\d{1,4})(?=/E)", "[]"))
  ELSE IF Test(PatPlainSE.atoms, FALSE, title)
  THEN Some(Patterns("(?<=E)(\\d{1,4})", "(?<=S)(\\d{1,4})(?=E)", "[]"))
  ELSE IF Test(PatStaffelFolge.atoms, TRUE, title)
  THEN Some(Patterns("Folge\\s*(\\d+)", "Staffel\\s*(\\d+)", "[]"))
  ELSE None

\* the same for ItemTitleEqualsAirdate; the title rule is named by the
\* pattern it holds
AirdateChoice(title) ==
  IF Test(PatVomNamed.atoms, FALSE, title)
  THEN Some(Patterns("", "", "vom\\s+(\\d{1,2}\\.\\s*\\w+\\s*\\d{4})"))
  ELSE IF Test(PatVomNumeric.atoms, FALSE, title)
  THEN Some(Patterns("", "", "vom\\s+(\\d{1,2}\\.\\d{1,2}\\.\\d{4})"))
  ELSE IF Test(PatDateNumeric.atoms, FALSE, title)
  THEN Some(Patterns("", "", "(\\d{1,2}\\.\\d{1,2}\\.\\d{4})"))
  ELSE None

\* the same for ByAbsoluteEpisodeNumber
AbsoluteChoice(title) ==
  IF Test(PatEpisode.atoms, TRUE, title)
  THEN Some(Patterns("Episode\\s*(\\d+)", "", "[]"))
  ELSE IF Test(PatFolge.atoms, TRUE, title)
  THEN Some(Patterns("Folge\\s*(\\d+)", "", "[]"))
  ELSE IF Test(PatTeil.atoms, TRUE, title)
  THEN Some(Patterns("Teil\\s*(\\d+)", "", "[]"))
  ELSE None

\* the same for ItemTitleExact; the title rule is named by its separator
ExactChoice(title) ==
  IF includes(title, <<":">>) THEN Some(Patterns("", "", "^topic[^:]*:\\s*(.+)"))
  ELSE IF includes(title, <<" ","-"," ">>)
  THEN Some(Patterns("", "", "^topic[^-]*-\\s*(.+)"))
  ELSE None

NoPatterns == Patterns("", "", "[]")

\* none of the strategies with patterns
NoChoice(title) == None

generateRegexPatterns(titles, strategy) ==
  CASE strategy = SeasonAndEpisodeNumber ->
         FirstPatterns(Slice(titles, 5), SeasonEpisodeChoice, NoPatterns)
    [] strategy = ItemTitleEqualsAirdate ->
         FirstPatterns(Slice(titles, 5), AirdateChoice, NoPatterns)
    [] strategy = "ByAbsoluteEpisodeNumber" ->
         FirstPatterns(Slice(titles, 5), AbsoluteChoice, NoPatterns)
    [] strategy = ItemTitleExact ->
         FirstPatterns(Slice(titles, 5), ExactChoice, NoPatterns)
    [] OTHER -> FirstPatterns(<<>>, NoChoice, NoPatterns)

\* the strategy and the patterns generateRulesetFromResults hands to
\* prisma.generatedRuleset.create for the titles of the topic's hits
GeneratedFields(titles, topic) ==
  [matchingStrategy |-> detectMatchingStrategy(titles, topic),
   patterns |-> generateRegexPatterns(titles, detectMatchingStrategy(titles, topic))]

\* detection and pattern generation are applied to the titles of the call
\* followed in fn
ApplyGenerate ==
  /\ fn.name = "generate"
  /\ fn.out = <<>>
  /\ fn' = [fn EXCEPT !.out = <<GeneratedFields(fn.arg, TopicTatort)>>]
  /\ UNCHANGED <<rulesetsByTopic, generatedRulesetsByTopic, lastFetchTime,
                 initPromise, now, downloadVars, db, loads, lookups, genReturned, filterCall>>

\* detectMatchingStrategy is applied to the titles and the topic of the
\* call followed in fn
ApplyDetect ==
  /\ fn.name = "detectMatchingStrategy"
  /\ fn.out = <<>>
  /\ fn' = [fn EXCEPT !.out = <<detectMatchingStrategy(fn.arg.titles, fn.arg.topic)>>]
  /\ UNCHANGED <<rulesetsByTopic, generatedRulesetsByTopic, lastFetchTime,
                 initPromise, now, downloadVars, db, loads, lookups, genReturned, filterCall>>

(* ---- titles built from a ruleset's title rules (mediathek.ts) ----------- *)
\* Patterns of title rules are matched with their capture groups.  Next to
\* the atoms of the generator's patterns there are the start of the text, a
\* repeated negated class, and the two ends of a capture group; groups are
\* not nested.
LineStart == <<[kind |-> "start", class |-> {}, min |-> 0, max |-> 0]>>
NotRep(class, min, max) ==
  <<[kind |-> "notClass", class |-> class, min |-> min, max |-> max]>>
Open == <<[kind |-> "open", class |-> {}, min |-> 0, max |-> 0]>>
Close == <<[kind |-> "close", class |-> {}, min |-> 0, max |-> 0]>>

\* title rule patterns, by their source text
ReTitleAfterColon == "^Tatort[^:]*:\\s*(.+)"
ReTitleTwoGroups  == "(S\\d{2})/(E\\d{2})"
ReTitleWhole      == "(.+)"
ReTitleVomDate    == "vom\\s+(\\d{1,2}\\.\\d{1,2}\\.\\d{4})"

\* new RegExp(pattern) for the patterns of title rules; None is a
\* SyntaxError
TitleRegExp(pattern) ==
  CASE pattern = ReTitleAfterColon ->
         Some(LineStart \o Lit(TopicTatort) \o NotRep({":"}, 0, -1) \o Lit(<<":">>)
                \o Rep(WhiteSpace, 0, -1) \o Open \o AnyRep(1, -1) \o Close)
    [] pattern = ReTitleTwoGroups ->
         Some(Open \o Lit(<<"S">>) \o Rep(DigitChars, 2, 2) \o Close \o Lit(<<"/">>)
                \o Open \o Lit(<<"E">>) \o Rep(DigitChars, 2, 2) \o Close)
    [] pattern = ReTitleWhole ->
         Some(Open \o AnyRep(1, -1) \o Close)
    [] pattern = ReTitleVomDate ->
         Some(Vom \o Open \o DayMonthYear \o Close)
    [] pattern = ReNoGroup ->
         Some(Lit(<<"S">>) \o Rep(DigitChars, 2, 2))
    [] OTHER -> None

\* the atom, a repetition, takes the character
AtomTakes(atom, c) ==
  CASE atom.kind = "any" -> TRUE
    [] atom.kind = "class" -> c \in atom.class
    [] atom.kind = "notClass" -> c \notin atom.class
    [] OTHER -> FALSE

\* the most characters from i on the repetition can take, counting from n
RECURSIVE Longest(_, _, _, _)
Longest(atom, text, i, n) ==
  IF /\ atom.max = -1 \/ n < atom.max
     /\ i + n <= Len(text)
     /\ AtomTakes(atom, text[i + n])
  THEN Longest(atom, text, i, n + 1)
  ELSE n

\* the backtracking match of the atoms from position i on: the position the
\* match ends before and the groups captured, or None; a repetition is
\* greedy, so it is tried from its longest stretch down
RECURSIVE Exec(_, _, _, _)
RECURSIVE Greedy(_, _, _, _, _)
Exec(atoms, text, i, caps) ==
  IF atoms = <<>> THEN Some([end |-> i, groups |-> caps.groups])
  ELSE LET atom == Head(atoms)
       IN CASE atom.kind = "open" ->
                 Exec(Tail(atoms), text, i, [caps EXCEPT !.opened = i])
            [] atom.kind = "close" ->
                 Exec(Tail(atoms), text, i,
                      [caps EXCEPT !.groups =
                                     Append(@, SubSeq(text, caps.opened, i - 1))])
            [] atom.kind = "start" ->
                 IF i = 1 THEN Exec(Tail(atoms), text, i, caps) ELSE None
            [] atom.kind = "b" ->
                 IF IsWordAt(text, i - 1) # IsWordAt(text, i)
                 THEN Exec(Tail(atoms), text, i, caps) ELSE None
            [] atom.kind = "notAfter" ->
                 IF ~(i > 1 /\ text[i - 1] \in atom.class)
                 THEN Exec(Tail(atoms), text, i, caps) ELSE None
            [] OTHER ->
                 Greedy(atoms, text, i, caps, Longest(atom, text, i, 0))

Greedy(atoms, text, i, caps, n) ==
  IF n < Head(atoms).min THEN None
  ELSE IF IsSome(Exec(Tail(atoms), text, i + n, caps))
  THEN Exec(Tail(atoms), text, i + n, caps)
  ELSE Greedy(atoms, text, i, caps, n - 1)

\* the leftmost match at or after position i: <<match[0], match[1], ...>>
RECURSIVE ExecFrom(_, _, _)
ExecFrom(atoms, text, i) ==
  IF i > Len(text) + 1 THEN None
  ELSE LET r == Exec(atoms, text, i, [opened |-> 0, groups |-> <<>>])
       IN IF IsSome(r)
          THEN Some(<<SubSeq(text, i, Val(r).end - 1)>> \o Val(r).groups)
          ELSE ExecFrom(atoms, text, i + 1)

\* fieldValue.match(rule.pattern) inside try / catch: the match array, or
\* None for no match and for a pattern that does not compile
TitleMatch(fieldValue, pattern) ==
  IF ~IsSome(TitleRegExp(pattern)) THEN None
  ELSE ExecFrom(Val(TitleRegExp(pattern)), fieldValue, 1)

TitleRule(type, value, field, pattern) ==
  [type |-> type, value |-> value, field |-> field, pattern |-> pattern]

\* the part with match[1] pushed in place of match[match.length - 1]
RulePartFirstGroup(item, rule) ==
  IF rule.type = "static" THEN Some(rule.value)
  ELSE IF rule.type # "regex" \/ rule.pattern = "" \/ rule.field = ""
          \/ getFieldValue(item, rule.field) = <<>>
  THEN Some(<<>>)
  ELSE LET match == TitleMatch(getFieldValue(item, rule.field), rule.pattern)
       IN IF IsSome(match)
          THEN Some(Val(match)[IF Len(Val(match)) > 1 THEN 2 ELSE 1])
          ELSE None

\* what one rule adds to parts (nothing is the empty text), or None when
\* the rule aborts the build
RulePart(item, rule) ==
  IF rule.type = "static" THEN Some(rule.value)
  ELSE IF rule.type # "regex" \/ rule.pattern = "" \/ rule.field = ""
          \/ getFieldValue(item, rule.field) = <<>>
  THEN Some(<<>>)
  ELSE LET match == TitleMatch(getFieldValue(item, rule.field), rule.pattern)
       IN IF IsSome(match) THEN Some(Val(match)[Len(Val(match))]) ELSE None

\* the loop over the rules and parts.join("")
RECURSIVE JoinParts(_, _)
JoinParts(item, rules) ==
  IF rules = <<>> THEN Some(<<>>)
  ELSE IF ~IsSome(RulePart(item, Head(rules))) THEN None
  ELSE IF ~IsSome(JoinParts(item, Tail(rules))) THEN None
  ELSE Some(Val(RulePart(item, Head(rules))) \o Val(JoinParts(item, Tail(rules))))

\* rulesJson is None when JSON.parse rejects it, and the list of rules
\* otherwise
buildTitleFromRegexRules(item, rulesJson) ==
  IF ~IsSome(rulesJson) THEN None ELSE JoinParts(item, Val(rulesJson))

(* ---- the strategies that compare titles (mediathek.ts) ------------------ *)
Min3(x, y, z) ==
  IF x <= y /\ x <= z THEN x ELSE IF y <= z THEN y ELSE z

\* row i of the matrix, filled from column 1 on; prev is row i - 1, c is
\* b.charAt(i - 1), and column j is kept at index j + 1
RECURSIVE LevRow(_, _, _, _)
LevRow(prev, a, c, row) ==
  IF Len(row) = Len(a) + 1 THEN row
  ELSE LevRow(prev, a, c,
              Append(row,
                     IF c = a[Len(row)] THEN prev[Len(row)]
                     ELSE Min3(prev[Len(row)] + 1, row[Len(row)] + 1,
                               prev[Len(row) + 1] + 1)))

\* the rows from i on, down to row b.length
RECURSIVE LevRows(_, _, _, _)
LevRows(prev, a, b, i) ==
  IF i > Len(b) THEN prev
  ELSE LevRows(LevRow(prev, a, b[i], <<i>>), a, b, i + 1)

levenshteinDistance(a, b) ==
  LevRows([j \in 1..(Len(a) + 1) |-> j - 1], a, b, 1)[Len(a) + 1]

\* a similarity is kept as the fraction num / den
Fraction(num, den) == [num |-> num, den |-> den]

stringSimilarity(a, b) ==
  IF a = b THEN Fraction(1, 1)
  ELSE IF Len(a) = 0 \/ Len(b) = 0 THEN Fraction(0, 1)
  ELSE LET maxLength == IF Len(a) >= Len(b) THEN Len(a) ELSE Len(b)
       IN Fraction(maxLength - levenshteinDistance(toLowerCase(a), toLowerCase(b)),
                   maxLength)

\* a threshold is kept in hundredths: 70 is 0.7 and 100 is 1.0
AtLeast(similarity, threshold) ==
  100 * similarity.num >= threshold * similarity.den

\* x > y for two similarities
Greater(x, y) == x.num * y.den > y.num * x.den

\* the MatchedEpisodeInfo of the strategies that build a title, or null
TitleInfo(item, ruleset, tvdbData, constructedTitle, matchedEpisode) ==
  IF ~IsSome(matchedEpisode) THEN None
  ELSE Some([episode |-> Val(matchedEpisode),
             item |-> item,
             showName |-> tvdbData.name,
             matchedTitle |-> constructedTitle,
             tvdbId |-> ruleset.media.media_tvdbId])

\* the loop of the fuzzy match over the episodes from position k on;
\* best is <<bestSimilarity, matchedEpisode>>
RECURSIVE BestSimilar(_, _, _, _, _)
BestSimilar(episodes, formattedConstructed, threshold, k, best) ==
  IF k > Len(episodes) THEN best[2]
  ELSE LET similarity == stringSimilarity(formatTitle(episodes[k].name),
                                          formattedConstructed)
       IN BestSimilar(episodes, formattedConstructed, threshold, k + 1,
                      IF AtLeast(similarity, threshold) /\ Greater(similarity, best[1])
                      THEN <<similarity, Some(episodes[k])>>
                      ELSE best)

\* matchesItemTitleIncludes from formattedConstructed on
IncludesEpisode(episodes, formattedConstructed, threshold) ==
  LET contained == FirstWhere(episodes,
                     LAMBDA ep : includes(toLowerCase(formatTitle(ep.name)),
                                          formattedConstructed))
  IN IF ~IsSome(contained) /\ threshold < 100
     THEN BestSimilar(episodes, formattedConstructed, threshold, 1,
                      <<Fraction(0, 1), None>>)
     ELSE contained

\* tvdbData is what getShowInfoByTvdbId(ruleset.media.media_tvdbId) gave
matchesItemTitleIncludes(item, ruleset, tvdbData, threshold) ==
  IF ~IsSome(tvdbData) \/ Val(tvdbData).episodes = <<>> THEN None
  ELSE LET constructedTitle == buildTitleFromRegexRules(item, ruleset.titleRegexRules)
       IN IF ~IsSome(constructedTitle) \/ Val(constructedTitle) = <<>> THEN None
          ELSE TitleInfo(item, ruleset, Val(tvdbData), Val(constructedTitle),
                         IncludesEpisode(Val(tvdbData).episodes,
                                         toLowerCase(formatTitle(Val(constructedTitle))),
                                         threshold))

\* the calendar day that lies the given number of days after the first day
\* of year y
RECURSIVE DayOfYear(_, _, _)
DayOfYear(y, m, days) ==
  IF days >= DaysInMonth(y, m) THEN DayOfYear(y, m + 1, days - DaysInMonth(y, m))
  ELSE AirDate(y, m, days + 1)

RECURSIVE DayFrom(_, _)
DayFrom(y, days) ==
  IF days >= (IF IsLeapYear(y) THEN 366 ELSE 365)
  THEN DayFrom(y + 1, days - (IF IsLeapYear(y) THEN 366 ELSE 365))
  ELSE DayOfYear(y, 1, days)

\* new Date(item.filmlisteTimestamp * 1000) as a calendar day, the server
\* keeping universal time
DateOfTimestamp(seconds) == DayFrom(1970, seconds \div 86400)

\* new Date(ep.aired).getTime(), or 0 without an air date, in days; air
\* dates are days from 1970 on
RECURSIVE DaysBeforeYear(_)
DaysBeforeYear(y) ==
  IF y <= 1970 THEN 0
  ELSE DaysBeforeYear(y - 1) + (IF IsLeapYear(y - 1) THEN 366 ELSE 365)

RECURSIVE DaysBeforeMonth(_, _)
DaysBeforeMonth(y, m) ==
  IF m <= 1 THEN 0 ELSE DaysBeforeMonth(y, m - 1) + DaysInMonth(y, m - 1)

AiredTime(ep) ==
  IF ~IsSome(ep.aired) THEN 0
  ELSE DaysBeforeYear(Val(ep.aired).y)
         + DaysBeforeMonth(Val(ep.aired).y, Val(ep.aired).m)
         + Val(ep.aired).d - 1

\* matchedEpisodes.sort((a, b) => bDate - aDate)[0]: the sort is stable, so
\* of the episodes aired last the one that comes first
Newest(matchedEpisodes) ==
  FirstWhere(matchedEpisodes,
             LAMBDA ep : \A k \in 1..Len(matchedEpisodes) :
                          AiredTime(matchedEpisodes[k]) <= AiredTime(ep))

\* the choice without the comparison of air date and catalog timestamp
PickEpisodeNewest(matchedEpisodes, item) ==
  IF Len(matchedEpisodes) <= 1 THEN FirstWhere(matchedEpisodes, LAMBDA ep : TRUE)
  ELSE Newest(matchedEpisodes)

\* the choice among the episodes that matched the title
PickEpisode(matchedEpisodes, item) ==
  IF Len(matchedEpisodes) <= 1 THEN FirstWhere(matchedEpisodes, LAMBDA ep : TRUE)
  ELSE LET sameDay == FirstWhere(matchedEpisodes,
                        LAMBDA ep : /\ IsSome(ep.aired)
                                    /\ Val(ep.aired) =
                                         DateOfTimestamp(item.filmlisteTimestamp))
       IN IF IsSome(sameDay) THEN sameDay ELSE Newest(matchedEpisodes)

\* matchesItemTitleExact from formattedTitle to matchedEpisodes
ExactEpisodes(episodes, formattedTitle, threshold) ==
  LET exact == SelectSeq(episodes,
                 LAMBDA ep : toLowerCase(formatTitle(ep.name)) = formattedTitle)
      highThreshold == IF threshold >= 90 THEN threshold ELSE 90
  IN IF exact = <<>> /\ threshold < 100
     THEN SelectSeq(episodes,
            LAMBDA ep : AtLeast(stringSimilarity(toLowerCase(formatTitle(ep.name)),
                                                 formattedTitle),
                                highThreshold))
     ELSE exact

matchesItemTitleExact(item, ruleset, tvdbData, threshold) ==
  IF ~IsSome(tvdbData) \/ Val(tvdbData).episodes = <<>> THEN None
  ELSE LET constructedTitle == buildTitleFromRegexRules(item, ruleset.titleRegexRules)
       IN IF ~IsSome(constructedTitle) \/ Val(constructedTitle) = <<>> THEN None
          ELSE TitleInfo(item, ruleset, Val(tvdbData), Val(constructedTitle),
                         PickEpisode(
                           ExactEpisodes(Val(tvdbData).episodes,
                                         toLowerCase(formatTitle(Val(constructedTitle))),
                                         threshold),
                           item))

\* the functions above are applied to the arguments of the call followed
\* in fn
ApplyIncludes ==
  /\ fn.name = "matchesItemTitleIncludes"
  /\ fn.out = <<>>
  /\ fn' = [fn EXCEPT !.out = <<matchesItemTitleIncludes(
                                   fn.arg.item, fn.arg.ruleset, fn.arg.tvdbData,
                                   fn.arg.threshold)>>]
  /\ UNCHANGED <<rulesetsByTopic, generatedRulesetsByTopic, lastFetchTime,
                 initPromise, now, downloadVars, db, loads, lookups, genReturned, filterCall>>

ApplyExact ==
  /\ fn.name = "matchesItemTitleExact"
  /\ fn.out = <<>>
  /\ fn' = [fn EXCEPT !.out = <<matchesItemTitleExact(
                                   fn.arg.item, fn.arg.ruleset, fn.arg.tvdbData,
                                   fn.arg.threshold)>>]
  /\ UNCHANGED <<rulesetsByTopic, generatedRulesetsByTopic, lastFetchTime,
                 initPromise, now, downloadVars, db, loads, lookups, genReturned, filterCall>>

ApplyBuildTitle ==
  /\ fn.name = "buildTitleFromRegexRules"
  /\ fn.out = <<>>
  /\ fn' = [fn EXCEPT !.out = <<buildTitleFromRegexRules(fn.arg.item,
                                                         fn.arg.rulesJson)>>]
  /\ UNCHANGED <<rulesetsByTopic, generatedRulesetsByTopic, lastFetchTime,
                 initPromise, now, downloadVars, db, loads, lookups, genReturned, filterCall>>

ApplyFilter ==
  /\ fn.name = "filterMatches"
  /\ fn.out = <<>>
  /\ fn' = [fn EXCEPT !.out = <<filterMatches(fn.arg.item, fn.arg.filter)>>]
  /\ UNCHANGED <<rulesetsByTopic, generatedRulesetsByTopic, lastFetchTime,
                 initPromise, now, downloadVars, db, loads, lookups, genReturned, filterCall>>

(* ---- lookups: fetchSearchResultsById ----------------------------------- *)
IdleLookup == [pc |-> "idle", tvdbId |-> 0, season |-> None,
               episodeNumber |-> None, early |-> FALSE, afterGen |-> FALSE,
               awaits |-> 0, ops |-> {}, result |-> "none", topic |-> None]

GeneratorPcs == {"genFindFirst", "genSearch", "genSearchEn",
                 "genFindUnique", "genCreate"}

\* the lookup has returned (or thrown): its locals are gone.  What is kept
\* is its result and, for a request that named a season, the request
Finish(lk, result) ==
  IF IsSome(lk.season)
  THEN [IdleLookup EXCEPT !.pc = "done", !.result = result,
                          !.tvdbId = lk.tvdbId, !.season = lk.season,
                          !.episodeNumber = lk.episodeNumber, !.ops = lk.ops]
  ELSE [IdleLookup EXCEPT !.pc = "done", !.result = result]

\* the matching loop of applyRulesetFilters and the rest of
\* fetchSearchResultsById: no await in it touches the store
FinishMatch(lk) == Finish([lk EXCEPT !.ops = @ \cup {"strategy"}], "rss")

\* the same after getOrGenerateRulesetForShow returned null: the lookup goes
\* through the matching loop without a ruleset of its own making
FinishUngenerated(lk) ==
  Finish([lk EXCEPT !.ops = @ \cup {"strategy"}], "rssUngenerated")

\* a variant of refreshInBackground that awaits the refresh it started
refreshAwaited(lk, l) ==
  IF l = 0 THEN [lk EXCEPT !.pc = "settings"]
  ELSE [lk EXCEPT !.pc = "awaitInit", !.awaits = l]

\* refreshRulesetsIfNeeded().catch(console.error); return -- the promise of
\* the refresh l (0: none was started) is dropped and the caller goes on
refreshInBackground(lk, l) == [lk EXCEPT !.pc = "settings"]

\* ensureRulesetsLoaded without the test of initPromise: a call that finds
\* the curated index empty starts a load
ensureRulesetsLoadedAgain(p, lk) ==
  LET early == ~FirstLoadCompleted
      called == [lk EXCEPT !.ops = @ \cup {"ensure"}, !.early = early]
  IN IF isRulesetsLoaded
     THEN /\ IF now - lastFetchTime > REFRESH_INTERVAL_MS
             THEN /\ NextLoad # 0
                  /\ loads' = StartLoad(NextLoad, "refresh", p)
             ELSE loads' = loads
          /\ initPromise' = initPromise
          /\ lookups' = [lookups EXCEPT ![p] =
                           refreshInBackground(called,
                             IF loads' = loads THEN 0 ELSE NextLoad)]
     ELSE /\ NextLoad # 0
          /\ loads' = StartLoad(NextLoad, "init", p)
          /\ initPromise' = Some(NextLoad)
          /\ lookups' = [lookups EXCEPT ![p] =
                           [called EXCEPT !.pc = "awaitInit",
                                          !.awaits = Val(initPromise')]]

\* ensureRulesetsLoaded, called by applyRulesetFilters, up to its return or
\* its await; lk is the caller's record so far
ensureRulesetsLoaded(p, lk) ==
  LET early == ~FirstLoadCompleted
      called == [lk EXCEPT !.ops = @ \cup {"ensure"}, !.early = early]
  IN IF isRulesetsLoaded
     THEN \* refreshRulesetsIfNeeded().catch(console.error); return
          /\ IF now - lastFetchTime > REFRESH_INTERVAL_MS
             THEN /\ NextLoad # 0
                  /\ loads' = StartLoad(NextLoad, "refresh", p)
             ELSE loads' = loads
          /\ initPromise' = initPromise
          /\ lookups' = [lookups EXCEPT ![p] =
                           refreshInBackground(called,
                             IF loads' = loads THEN 0 ELSE NextLoad)]
     ELSE \* if (!initPromise) initPromise = loadRulesets(); await initPromise
          /\ IF initPromise = None
             THEN /\ NextLoad # 0
                  /\ loads' = StartLoad(NextLoad, "init", p)
                  /\ initPromise' = Some(NextLoad)
             ELSE UNCHANGED <<loads, initPromise>>
          /\ lookups' = [lookups EXCEPT ![p] =
                           [called EXCEPT !.pc = "awaitInit",
                                          !.awaits = Val(initPromise')]]

\* fetchSearchResultsById from its call to the await of ensureRulesetsLoaded:
\* result cache, desired episodes and the short circuit, then the catalog
\* response (from the API cache or from fetchMediathekViewApiResponse, whose
\* await touches nothing of the store).  answer is "cached" for a hit of the
\* result cache, "failed" for an empty or unparsable catalog response,
\* "results" otherwise.
Start(p, tvdbId, season, episodeNumber, answer) ==
  /\ lookups[p].pc = "idle"
  /\ \A q \in 1..(p - 1) : lookups[q].pc # "idle"
  /\ LET lk == [lookups[p] EXCEPT
                  !.tvdbId = tvdbId, !.season = season,
                  !.episodeNumber = episodeNumber,
                  !.afterGen = \E g \in genReturned : g.tvdbId = tvdbId]
         desiredEpisodes == getDesiredEpisodes(TvdbData(tvdbId), season, episodeNumber)
         queried == [lk EXCEPT !.ops = @ \cup {"api"}]
     IN IF answer = "cached"
        THEN /\ lookups' = [lookups EXCEPT ![p] = Finish(lk, "cached")]
             /\ UNCHANGED <<loads, initPromise>>
        ELSE IF shortCircuit(season, desiredEpisodes)
        THEN /\ lookups' = [lookups EXCEPT ![p] = Finish(lk, "shortCircuit")]
             /\ UNCHANGED <<loads, initPromise>>
        ELSE IF answer = "failed"
        THEN /\ lookups' = [lookups EXCEPT ![p] = Finish(queried, "noResponse")]
             /\ UNCHANGED <<loads, initPromise>>
        ELSE ensureRulesetsLoaded(p, queried)
  /\ UNCHANGED <<rulesetsByTopic, generatedRulesetsByTopic, lastFetchTime,
                 now, downloadVars, db, genReturned>>
  /\ UNCHANGED <<filterCall, fn>>

\* await initPromise resumes once the first loadRulesets has returned
AwaitInit(p) ==
  /\ lookups[p].pc = "awaitInit"
  /\ loads[lookups[p].awaits].pc = "done"
  /\ lookups' = [lookups EXCEPT ![p].pc = "settings", ![p].awaits = 0]
  /\ UNCHANGED <<rulesetsByTopic, generatedRulesetsByTopic, lastFetchTime,
                 initPromise, now, downloadVars, db, loads, genReturned>>
  /\ UNCHANGED <<filterCall, fn>>

\* applyRulesetFilters after the settings: is there a ruleset for the show;
\* if not getOrGenerateRulesetForShow runs up to its database lookup
CheckRulesets(p) ==
  /\ lookups[p].pc = "settings"
  /\ LET lk == [lookups[p] EXCEPT !.ops = @ \cup {"index"}]
     IN lookups' = [lookups EXCEPT ![p] =
                      IF hasRulesetForTvdbId(lk.tvdbId)
                      THEN FinishMatch(lk)
                      ELSE [lk EXCEPT !.pc = "dbLookup"]]
  /\ UNCHANGED <<rulesetsByTopic, generatedRulesetsByTopic, lastFetchTime,
                 initPromise, now, downloadVars, db, loads, genReturned>>
  /\ UNCHANGED <<filterCall, fn>>

(* ---- getOrGenerateRulesetForShow / ruleset generator -------------------- *)
\* generateRulesetForShow returned ruleset to getOrGenerateRulesetForShow,
\* which adds it to the generated index and returns it
ReturnGenerated(p, lk, ruleset) ==
  /\ generatedRulesetsByTopic' = addGeneratedRuleset(ruleset)
  /\ genReturned' = genReturned \cup {[tvdbId |-> lk.tvdbId, ruleset |-> ruleset]}
  /\ lookups' = [lookups EXCEPT ![p] = FinishMatch(lk)]

\* a variant of ReturnNull in which the generator's failure reaches the
\* lookup's caller as an exception
ReturnNullThrown(p, lk) ==
  /\ lookups' = [lookups EXCEPT ![p] = Finish(lk, "threw")]
  /\ UNCHANGED <<generatedRulesetsByTopic, genReturned>>

\* generateRulesetForShow returned null
ReturnNull(p, lk) ==
  /\ lookups' = [lookups EXCEPT ![p] = FinishUngenerated(lk)]
  /\ UNCHANGED <<generatedRulesetsByTopic, genReturned>>

\* getGeneratedRulesetByTvdbId answers
DbLookup(p) ==
  /\ lookups[p].pc = "dbLookup"
  /\ LET existingGenerated ==
           FindFirst(db, LAMBDA r : r.tvdbId = lookups[p].tvdbId)
     IN IF IsSome(existingGenerated)
        THEN /\ generatedRulesetsByTopic' =
                  addGeneratedRuleset(convertToRuleset(Val(existingGenerated)))
             /\ lookups' = [lookups EXCEPT ![p] = FinishMatch(lookups[p])]
        ELSE /\ lookups' = [lookups EXCEPT ![p].pc = "genFindFirst",
                                           ![p].ops = @ \cup {"generate"}]
             /\ UNCHANGED generatedRulesetsByTopic
  /\ UNCHANGED <<rulesetsByTopic, lastFetchTime, initPromise, now, downloadVars, db, loads,
                 genReturned>>
  /\ UNCHANGED <<filterCall, fn>>

\* generateRulesetForShow: findFirst({ tvdbId }) answers
GenFindFirst(p) ==
  /\ lookups[p].pc = "genFindFirst"
  /\ LET existingByTvdbId ==
           FindFirst(db, LAMBDA r : r.tvdbId = lookups[p].tvdbId)
     IN IF IsSome(existingByTvdbId)
        THEN ReturnGenerated(p, lookups[p], convertToRuleset(Val(existingByTvdbId)))
        ELSE /\ lookups' = [lookups EXCEPT ![p].pc = "genSearch"]
             /\ UNCHANGED <<generatedRulesetsByTopic, genReturned>>
  /\ UNCHANGED <<rulesetsByTopic, lastFetchTime, initPromise, now, downloadVars, db, loads>>
  /\ UNCHANGED <<filterCall, fn>>

\* generateRulesetFromResults up to findUnique({ topic })
FromResults(p, lk, results) ==
  LET matchingTopic == findBestMatchingTopic(results, TvdbData(lk.tvdbId))
  IN IF IsSome(matchingTopic)
     THEN /\ lookups' = [lookups EXCEPT ![p] =
                           [lk EXCEPT !.pc = "genFindUnique",
                                      !.topic = matchingTopic]]
          /\ UNCHANGED <<generatedRulesetsByTopic, genReturned>>
     ELSE ReturnNull(p, lk)

\* searchMediathekApi(germanName || name) answers
GenSearch(p) ==
  /\ lookups[p].pc = "genSearch"
  /\ LET showInfo == TvdbData(lookups[p].tvdbId)
         german == IsSome(showInfo.germanName) /\ Val(showInfo.germanName) # <<>>
         searchQuery == IF german THEN Val(showInfo.germanName) ELSE showInfo.name
         lk == [lookups[p] EXCEPT !.ops = @ \cup {"search"}]
     IN \E results \in searchMediathekApi(searchQuery) :
          IF results = <<>>
          THEN IF german /\ showInfo.name # Val(showInfo.germanName)
               THEN /\ lookups' = [lookups EXCEPT ![p] =
                                     [lk EXCEPT !.pc = "genSearchEn"]]
                    /\ UNCHANGED <<generatedRulesetsByTopic, genReturned>>
               ELSE ReturnNull(p, lk)
          ELSE FromResults(p, lk, results)
  /\ UNCHANGED <<rulesetsByTopic, lastFetchTime, initPromise, now, downloadVars, db, loads>>
  /\ UNCHANGED <<filterCall, fn>>

\* searchMediathekApi(name) answers
GenSearchEn(p) ==
  /\ lookups[p].pc = "genSearchEn"
  /\ \E englishResults \in searchMediathekApi(TvdbData(lookups[p].tvdbId).name) :
       IF Len(englishResults) > 0
       THEN FromResults(p, lookups[p], englishResults)
       ELSE ReturnNull(p, lookups[p])
  /\ UNCHANGED <<rulesetsByTopic, lastFetchTime, initPromise, now, downloadVars, db, loads>>
  /\ UNCHANGED <<filterCall, fn>>

\* findUnique({ topic }) answers
GenFindUnique(p) ==
  /\ lookups[p].pc = "genFindUnique"
  /\ LET existingByTopic ==
           FindFirst(db, LAMBDA r : r.topic = Val(lookups[p].topic))
     IN IF IsSome(existingByTopic)
        THEN ReturnGenerated(p, lookups[p], convertToRuleset(Val(existingByTopic)))
        ELSE /\ lookups' = [lookups EXCEPT ![p].pc = "genCreate"]
             /\ UNCHANGED <<generatedRulesetsByTopic, genReturned>>
  /\ UNCHANGED <<rulesetsByTopic, lastFetchTime, initPromise, now, downloadVars, db, loads>>
  /\ UNCHANGED <<filterCall, fn>>

\* the row prisma.generatedRuleset.create is asked to insert
NewRow(topic, tvdbId) ==
  [id |-> 100 + Cardinality(db), topic |-> topic, tvdbId |-> tvdbId,
   showName |-> TvdbData(tvdbId).name,
   germanName |-> TvdbData(tvdbId).germanName,
   filters |-> DefaultFilters]

\* a variant of TopicTaken for a table without the unique index on topic
TopicTakenNever(topic) == FALSE

\* unique index GeneratedRuleset_topic_key
TopicTaken(topic) == \E r \in db : r.topic = topic

\* prisma.generatedRuleset.create answers: the row, or a unique constraint
\* error that nothing between the generator and the lookup's caller catches
GenCreate(p) ==
  /\ lookups[p].pc = "genCreate"
  /\ LET lk == [lookups[p] EXCEPT !.ops = @ \cup {"create"}]
         newRuleset == NewRow(Val(lk.topic), lk.tvdbId)
     IN IF TopicTaken(Val(lk.topic))
        THEN /\ lookups' = [lookups EXCEPT ![p] = Finish(lk, "threw")]
             /\ UNCHANGED <<db, generatedRulesetsByTopic, genReturned>>
        ELSE /\ db' = db \cup {newRuleset}
             /\ ReturnGenerated(p, lk, convertToRuleset(newRuleset))
  /\ UNCHANGED <<rulesetsByTopic, lastFetchTime, initPromise, now, downloadVars, loads>>
  /\ UNCHANGED <<filterCall, fn>>

\* Time passes.  The clock is read only to compare it with lastFetchTime and
\* to set lastFetchTime, so time that passes while a refresh is already due
\* changes no comparison: the clock advances while the store is fresh.
Tick ==
  /\ now < StartTimeMs + MaxTicks * ClockStepMs
  /\ ~(now - lastFetchTime > REFRESH_INTERVAL_MS)
  /\ now' = now + ClockStepMs
  /\ UNCHANGED <<rulesetsByTopic, generatedRulesetsByTopic, lastFetchTime,
                 initPromise, db, loads, lookups, genReturned>>
  /\ UNCHANGED <<filterCall, fn, downloadVars>>

(* ---- the download manager (download-manager.ts, download.ts) ----------- *)
MAX_CONCURRENT_DOWNLOADS == 1

DownloadIds == 1..MaxDownloads
TaskIds == 1..MaxTasks

\* a processDownload invocation: seen is the status findUnique read and
\* hasMore the answer of the count in finally
FreeTask == [pc |-> "free", downloadId |-> 0, seen |-> "none", hasMore |-> FALSE]

NoLoop == [pc |-> "none", nextDownload |-> 0]

NoDownloads ==
  /\ download = [d \in DownloadIds |-> "absent"]
  /\ downloadSemaphore = [permits |-> MAX_CONCURRENT_DOWNLOADS, queue |-> <<>>]
  /\ isProcessing = FALSE
  /\ queueLoop = NoLoop
  /\ tasks = [t \in TaskIds |-> FreeTask]
  /\ triggers = {}

storeVars == <<rulesetsByTopic, generatedRulesetsByTopic, lastFetchTime,
               initPromise, now, db, loads, lookups, genReturned, filterCall, fn>>

QueuedIds == {d \in DownloadIds : download[d] = "queued"}

FreeTasks == {t \in TaskIds : tasks[t].pc = "free"}

\* acquire by task t without the count of permits: the caller always goes on
acquireUncounted(sem, t) == sem

\* Semaphore.acquire by task t: the semaphore after the call; the caller
\* goes on at once if a permit was left and is queued if not
acquire(sem, t) ==
  IF sem.permits > 0 THEN [sem EXCEPT !.permits = @ - 1]
  ELSE [sem EXCEPT !.queue = Append(@, t)]

\* Semaphore.release: the semaphore after the call; the head of the queue,
\* if there is one, takes the permit
release(sem) ==
  LET raised == [sem EXCEPT !.permits = @ + 1]
  IN IF sem.queue # <<>>
     THEN [raised EXCEPT !.queue = Tail(@), !.permits = @ - 1]
     ELSE raised

\* task t waits in the queue of the semaphore
Waits(sem, t) == \E i \in 1..Len(sem.queue) : sem.queue[i] = t

\* the task release() resumes, 0 if none waits
Released(sem) == IF sem.queue # <<>> THEN Head(sem.queue) ELSE 0

\* startDownloadProcessing up to its await: with a loop running it returns,
\* else it sets isProcessing and calls processQueue, which suspends in its
\* findFirst
startDownloadProcessing ==
  IF isProcessing THEN UNCHANGED <<isProcessing, queueLoop>>
  ELSE /\ isProcessing' = TRUE
       /\ queueLoop' = [NoLoop EXCEPT !.pc = "findFirst"]

\* processDownload(downloadId) as task t up to its first suspension: the
\* tasks and the semaphore after the call
CallProcessDownload(t, downloadId) ==
  LET sem == acquire(downloadSemaphore, t)
  IN /\ downloadSemaphore' = sem
     /\ tasks' = [tasks EXCEPT ![t] =
                    [FreeTask EXCEPT !.downloadId = downloadId,
                                     !.pc = IF Waits(sem, t)
                                            THEN "waiting" ELSE "findUnique"]]

\* addToQueue: the database executes the create of row d; rows are created
\* in the order of their ids
AddToQueue(d) ==
  /\ download[d] = "absent"
  /\ \A e \in 1..(d - 1) : download[e] # "absent"
  /\ download' = [download EXCEPT ![d] = "queued"]
  /\ triggers' = triggers \cup {d}
  /\ UNCHANGED <<downloadSemaphore, isProcessing, queueLoop, tasks, storeVars>>

\* addToQueue resumes after the create: triggerDownloadProcessing, whose
\* import resolves and calls startDownloadProcessing
TriggerDownloadProcessing(d) ==
  /\ d \in triggers
  /\ triggers' = triggers \ {d}
  /\ startDownloadProcessing
  /\ UNCHANGED <<download, downloadSemaphore, tasks, storeVars>>

\* processQueue: the database executes findFirst({status: "queued"}) ordered
\* by createdAt, at the start of the loop or after the delay of 100 ms
QueueFindFirst ==
  /\ queueLoop.pc = "findFirst"
  /\ queueLoop' = [pc |-> "found",
                   nextDownload |-> IF QueuedIds = {} THEN 0
                                    ELSE CHOOSE d \in QueuedIds :
                                           \A e \in QueuedIds : d <= e]
  /\ UNCHANGED <<download, downloadSemaphore, isProcessing, tasks, triggers,
                 storeVars>>

\* processQueue resumes with no row: the loop ends, processingPromise
\* resolves and startDownloadProcessing clears isProcessing
QueueBreak ==
  /\ queueLoop.pc = "found" /\ queueLoop.nextDownload = 0
  /\ queueLoop' = NoLoop
  /\ isProcessing' = FALSE
  /\ UNCHANGED <<download, downloadSemaphore, tasks, triggers, storeVars>>

\* processQueue resumes with a row: it calls processDownload for it as task
\* t and suspends in the delay
QueueProcess(t) ==
  /\ queueLoop.pc = "found" /\ queueLoop.nextDownload # 0
  /\ t \in FreeTasks /\ \A u \in FreeTasks : t <= u
  /\ CallProcessDownload(t, queueLoop.nextDownload)
  /\ queueLoop' = [NoLoop EXCEPT !.pc = "findFirst"]
  /\ UNCHANGED <<download, isProcessing, triggers, storeVars>>

\* processDownload holds a permit: the database executes its findUnique
FindUnique(t) ==
  /\ tasks[t].pc = "findUnique"
  /\ tasks' = [tasks EXCEPT ![t].pc = "check",
                            ![t].seen = download[tasks[t].downloadId]]
  /\ UNCHANGED <<download, downloadSemaphore, isProcessing, queueLoop, triggers,
                 storeVars>>

\* the finally of processDownload up to its await: release(), which resumes
\* the head of the queue, and the count of the queued rows is sent
Finally(t) ==
  /\ downloadSemaphore' = release(downloadSemaphore)
  /\ tasks' = [u \in TaskIds |->
                 IF u = t THEN [tasks[t] EXCEPT !.pc = "count"]
                 ELSE IF u = Released(downloadSemaphore)
                 THEN [tasks[u] EXCEPT !.pc = "findUnique"]
                 ELSE tasks[u]]

\* the test without the comparison of the status
SkipsRowNever(seen) == seen = "absent"

\* if (!download || download.status !== "queued") return
SkipsRow(seen) == seen = "absent" \/ seen # "queued"

\* processDownload resumes with the row: a row that is not queued makes it
\* return, through finally
SkipDownload(t) ==
  /\ tasks[t].pc = "check" /\ SkipsRow(tasks[t].seen)
  /\ Finally(t)
  /\ UNCHANGED <<download, isProcessing, queueLoop, triggers, storeVars>>

\* processDownload resumes with a queued row and sends the update to
\* downloading
BeginDownload(t) ==
  /\ tasks[t].pc = "check" /\ ~SkipsRow(tasks[t].seen)
  /\ tasks' = [tasks EXCEPT ![t].pc = "markDownloading"]
  /\ UNCHANGED <<download, downloadSemaphore, isProcessing, queueLoop, triggers,
                 storeVars>>

\* the database executes the update to downloading; the task goes on to
\* make the directories and to fetch the file
MarkDownloading(t) ==
  /\ tasks[t].pc = "markDownloading"
  /\ download' = [download EXCEPT ![tasks[t].downloadId] = "downloading"]
  /\ tasks' = [tasks EXCEPT ![t].pc = "fetch"]
  /\ UNCHANGED <<downloadSemaphore, isProcessing, queueLoop, triggers, storeVars>>

\* the database executes the update to converting; convertMp4ToMkv runs
MarkConverting(t) ==
  /\ tasks[t].pc = "markConverting"
  /\ download' = [download EXCEPT ![tasks[t].downloadId] = "converting"]
  /\ tasks' = [tasks EXCEPT ![t].pc = "convert"]
  /\ UNCHANGED <<downloadSemaphore, isProcessing, queueLoop, triggers, storeVars>>

\* the database executes the update to completed
MarkCompleted(t) ==
  /\ tasks[t].pc = "markCompleted"
  /\ download' = [download EXCEPT ![tasks[t].downloadId] = "completed"]
  /\ tasks' = [tasks EXCEPT ![t].pc = "finally"]
  /\ UNCHANGED <<downloadSemaphore, isProcessing, queueLoop, triggers, storeVars>>

\* markAsFailed: the database executes the update to failed
MarkAsFailed(t) ==
  /\ tasks[t].pc = "markFailed"
  /\ download' = [download EXCEPT ![tasks[t].downloadId] = "failed"]
  /\ tasks' = [tasks EXCEPT ![t].pc = "finally"]
  /\ UNCHANGED <<downloadSemaphore, isProcessing, queueLoop, triggers, storeVars>>

\* the directories are made and downloadFile ends: with the file of an MP4
\* url, with the file of another url (it is moved and the update to
\* completed is sent), with false, or with an exception of one of the calls
FetchOutcomes == {"mp4", "other", "false", "throws"}

Fetch(t, outcome) ==
  /\ tasks[t].pc = "fetch"
  /\ tasks' = [tasks EXCEPT ![t].pc =
                 CASE outcome = "mp4" -> "markConverting"
                   [] outcome = "other" -> "markCompleted"
                   [] OTHER -> "markFailed"]
  /\ UNCHANGED <<download, downloadSemaphore, isProcessing, queueLoop, triggers,
                 storeVars>>

\* convertMp4ToMkv ends; the file is moved and the update to completed is
\* sent, or the conversion failed or a file operation threw
Convert(t, success) ==
  /\ tasks[t].pc = "convert"
  /\ tasks' = [tasks EXCEPT ![t].pc = IF success THEN "markCompleted"
                                      ELSE "markFailed"]
  /\ UNCHANGED <<download, downloadSemaphore, isProcessing, queueLoop, triggers,
                 storeVars>>

\* processDownload resumes after its last update and enters finally
EnterFinally(t) ==
  /\ tasks[t].pc = "finally"
  /\ Finally(t)
  /\ UNCHANGED <<download, isProcessing, queueLoop, triggers, storeVars>>

\* the database executes the count of the queued rows
CountQueued(t) ==
  /\ tasks[t].pc = "count"
  /\ tasks' = [tasks EXCEPT ![t].pc = "counted", ![t].hasMore = QueuedIds # {}]
  /\ UNCHANGED <<download, downloadSemaphore, isProcessing, queueLoop, triggers,
                 storeVars>>

\* finally resumes with the count: with rows queued and no loop running it
\* calls startDownloadProcessing; processDownload has returned
EndDownload(t) ==
  /\ tasks[t].pc = "counted"
  /\ tasks' = [tasks EXCEPT ![t] = FreeTask]
  /\ IF tasks[t].hasMore /\ ~isProcessing
     THEN startDownloadProcessing
     ELSE UNCHANGED <<isProcessing, queueLoop>>
  /\ UNCHANGED <<download, downloadSemaphore, triggers, storeVars>>

(* ---- specification ------------------------------------------------------ *)
\* rows a previous run of the server may have left in the database
InitialDbs == {{}, {[id |-> 100, topic |-> TopicTatort, tvdbId |-> 1,
                     showName |-> TopicTatort, germanName |-> Some(TopicTatort),
                     filters |-> DefaultFilters]}}

Init ==
  /\ NoDownloads
  /\ rulesetsByTopic = EmptyIndex
  /\ generatedRulesetsByTopic = EmptyIndex
  /\ lastFetchTime = 0
  /\ initPromise = None
  /\ now = StartTimeMs
  /\ db \in InitialDbs
  /\ loads = [l \in Loads |-> FreeLoadRec]
  /\ lookups = [p \in Lookups |-> IdleLookup]
  /\ genReturned = {}
  /\ filterCall = NoFilterCall
  /\ fn = NoCall

Answers == {"cached", "failed", "results"}

Next ==
  \/ \E p \in Lookups, tvdbId \in ShowIds, answer \in Answers :
       Start(p, tvdbId, None, None, answer)
  \/ \E p \in Lookups : AwaitInit(p)
  \/ \E p \in Lookups : CheckRulesets(p)
  \/ \E p \in Lookups : DbLookup(p)
  \/ \E p \in Lookups : GenFindFirst(p)
  \/ \E p \in Lookups : GenSearch(p)
  \/ \E p \in Lookups : GenSearchEn(p)
  \/ \E p \in Lookups : GenFindUnique(p)
  \/ \E p \in Lookups : GenCreate(p)
  \/ \E l \in Loads : LoadCurated(l)
  \/ \E l \in Loads : GetGeneratedRulesets(l)
  \/ \E l \in Loads : LoadGeneratedRulesets(l)
  \/ Tick

Spec == Init /\ [][Next]_vars

\* Requests served one after the other: a lookup begins when no other is in
\* flight, and the last of them names a season and an episode.
SeasonTokens == {None, Some(<<>>), Some(<<"1">>), Some(Year2020), Some(<<"x">>)}
EpisodeTokens == {None, Some(<<"5">>), Some(<<"7">>), Some(<<"0","3","/","0","1">>)}

\* the shows whose episodes the season and episode tokens select among
SeqShowIds == {1, 2}

NextSeq ==
  \/ \E p \in Lookups, tvdbId \in SeqShowIds, season \in SeasonTokens,
        episodeNumber \in EpisodeTokens, answer \in Answers :
       /\ p < NumLookups => (season = None /\ episodeNumber = None)
       /\ \A q \in Lookups : lookups[q].pc \in {"idle", "done"}
       /\ Start(p, tvdbId, season, episodeNumber, answer)
  \/ \E p \in Lookups : AwaitInit(p)
  \/ \E p \in Lookups : CheckRulesets(p)
  \/ \E p \in Lookups : DbLookup(p)
  \/ \E p \in Lookups : GenFindFirst(p)
  \/ \E p \in Lookups : GenSearch(p)
  \/ \E p \in Lookups : GenSearchEn(p)
  \/ \E p \in Lookups : GenFindUnique(p)
  \/ \E p \in Lookups : GenCreate(p)
  \/ \E l \in Loads : LoadCurated(l)
  \/ \E l \in Loads : GetGeneratedRulesets(l)
  \/ \E l \in Loads : LoadGeneratedRulesets(l)
  \/ Tick

SpecSeq == Init /\ [][NextSeq]_vars

\* Concurrent lookups on a server whose first load has completed and whose
\* store stays fresh: the curated list holds no ruleset for the shows, the
\* generated index is what loadGeneratedRulesets read from the table.
InitLoaded ==
  /\ NoDownloads
  /\ rulesetsByTopic = indexRulesets(CuratedA)
  /\ db \in InitialDbs
  /\ generatedRulesetsByTopic = GroupGenerated(db)
  /\ lastFetchTime = StartTimeMs
  /\ initPromise = Some(1)
  /\ now = StartTimeMs
  /\ loads = [l \in Loads |-> IF l = 1
                             THEN [FreeLoadRec EXCEPT !.pc = "done", !.kind = "init"]
                             ELSE FreeLoadRec]
  /\ lookups = [p \in Lookups |-> IdleLookup]
  /\ genReturned = {}
  /\ filterCall = NoFilterCall
  /\ fn = NoCall

NextLoaded ==
  \/ \E p \in Lookups, tvdbId \in ShowIds, answer \in Answers :
       Start(p, tvdbId, None, None, answer)
  \/ \E p \in Lookups : CheckRulesets(p)
  \/ \E p \in Lookups : DbLookup(p)
  \/ \E p \in Lookups : GenFindFirst(p)
  \/ \E p \in Lookups : GenSearch(p)
  \/ \E p \in Lookups : GenSearchEn(p)
  \/ \E p \in Lookups : GenFindUnique(p)
  \/ \E p \in Lookups : GenCreate(p)

SpecLoaded == InitLoaded /\ [][NextLoaded]_vars

\* The store under requests for all episodes of a show, served one after
\* the other, with the loads and the clock: every kind of write the two
\* indexes receive.
NextStore ==
  \/ \E p \in Lookups, tvdbId \in ShowIds, answer \in Answers :
       /\ \A q \in Lookups : lookups[q].pc \in {"idle", "done"}
       /\ Start(p, tvdbId, None, None, answer)
  \/ \E p \in Lookups : AwaitInit(p)
  \/ \E p \in Lookups : CheckRulesets(p)
  \/ \E p \in Lookups : DbLookup(p)
  \/ \E p \in Lookups : GenFindFirst(p)
  \/ \E p \in Lookups : GenSearch(p)
  \/ \E p \in Lookups : GenSearchEn(p)
  \/ \E p \in Lookups : GenFindUnique(p)
  \/ \E p \in Lookups : GenCreate(p)
  \/ \E l \in Loads : LoadCurated(l)
  \/ \E l \in Loads : GetGeneratedRulesets(l)
  \/ \E l \in Loads : LoadGeneratedRulesets(l)
  \/ Tick

SpecStore == Init /\ [][NextStore]_vars

\* The same requests on a server whose sources of curated rulesets can also
\* answer with a list that holds no ruleset.
EmptyList == Some(<<>>)

NextInit ==
  \/ \E p \in Lookups, tvdbId \in ShowIds, answer \in Answers :
       /\ \A q \in Lookups : lookups[q].pc \in {"idle", "done"}
       /\ Start(p, tvdbId, None, None, answer)
  \/ \E p \in Lookups : AwaitInit(p)
  \/ \E p \in Lookups : CheckRulesets(p)
  \/ \E p \in Lookups : DbLookup(p)
  \/ \E p \in Lookups : GenFindFirst(p)
  \/ \E p \in Lookups : GenSearch(p)
  \/ \E p \in Lookups : GenSearchEn(p)
  \/ \E p \in Lookups : GenFindUnique(p)
  \/ \E p \in Lookups : GenCreate(p)
  \/ \E l \in Loads : LoadCuratedFrom(l, GitHubOutcomes \cup {EmptyList},
                                      LocalFileOutcomes \cup {EmptyList})
  \/ \E l \in Loads : GetGeneratedRulesets(l)
  \/ \E l \in Loads : LoadGeneratedRulesets(l)
  \/ Tick

SpecInit == Init /\ [][NextInit]_vars

\* Matching on its own: applyRulesetFilters at the start of its loop, over a
\* loaded index and a list of catalog hits.
MaxResults == 2

\* "Tatort (S01/E09)", "Tatort (S1a/E05)", "Tatort (Sxx/E05)",
\* "Tatort: Trailer (S01/E05)", "Tatort: Der Fall"
TitleNoEpisode == <<"T","a","t","o","r","t"," ","(","S","0","1","/","E","0","9",")">>
TitleDigitLetter == <<"T","a","t","o","r","t"," ","(","S","1","a","/","E","0","5",")">>
TitleLetters == <<"T","a","t","o","r","t"," ","(","S","x","x","/","E","0","5",")">>
TitleTrailer ==
  <<"T","a","t","o","r","t",":"," ","T","r","a","i","l","e","r"," ",
    "(","S","0","1","/","E","0","5",")">>
TitleNoMarker == <<"T","a","t","o","r","t",":"," ","D","e","r"," ","F","a","l","l">>
UrlM3u8 == <<"h",".","m","3","u","8">>

MatchHits ==
  {Hit(TopicTatort, TitleDerFall, 5400, UrlMp4),
   Hit(TopicTatort, TitleDerZeuge, 5400, UrlMp4),
   Hit(TopicTatort, TitleNoEpisode, 5400, UrlMp4),
   Hit(TopicTatort, TitleDigitLetter, 5400, UrlMp4),
   Hit(TopicTatort, TitleLetters, 5400, UrlMp4),
   Hit(TopicTatort, TitleTrailer, 5400, UrlMp4),
   Hit(TopicTatort, TitleNoMarker, 5400, UrlMp4),
   Hit(TopicTatort, TitleDerFall, 300, UrlMp4),
   Hit(TopicTatort, TitleDerFall, 5400, UrlM3u8)}

\* lists of distinct hits
MatchResults ==
  UNION {{r \in [1..n -> MatchHits] : \A i, j \in 1..n : r[i] = r[j] => i = j}
           : n \in 0..MaxResults}

\* what the catalog call gives
ApiResponses == {"failed", "unparsable", "json"}

\* requests for show 1: all episodes, a season, an episode of a season that
\* the show has, and a season it does not have
MatchRequests ==
  {<<None, None>>, <<Some(<<"1">>), None>>, <<Some(<<"1">>), Some(<<"5">>)>>,
   <<Some(<<"2">>), None>>}

SeasonPatterns == {None, Some(""), Some(ReSeason2), Some(ReSeason4),
                   Some(ReSeasonWord), Some(ReNoGroup), Some(ReUnclosed)}

TatortRuleset(id, priority, strategy, seasonRegex, episodeRegex) ==
  Ruleset(id, TopicTatort, 1, priority, strategy, seasonRegex, episodeRegex,
          DefaultFilters)

\* [{"attribute":"title","type":"Contains","value":"Zeuge"}]
ZeugeFilters == <<Filter("title", "Contains", <<"Z","e","u","g","e">>)>>

\* curated lists: one ruleset for the show with each season pattern, the
\* same behind a ruleset whose strategy the switch does not know, the
\* generator's patterns, and a ruleset for the titles that hold "Zeuge" in
\* front of one for every title
MatchRulesetLists ==
  {<<Ruleset(13, TopicTatort, 1, 0, SeasonAndEpisodeNumber, Some(ReSeason2),
             Some(ReEpisode2), ZeugeFilters),
     TatortRuleset(11, 1, SeasonAndEpisodeNumber, Some(ReSeason2),
                   Some(ReEpisode2))>>} \cup
  {<<TatortRuleset(11, 1, SeasonAndEpisodeNumber, s, Some(ReEpisode2)), CuratedHeute>>
     : s \in SeasonPatterns}
  \cup {<<TatortRuleset(12, 0, "ByAbsoluteEpisodeNumber", None, None),
          TatortRuleset(11, 1, SeasonAndEpisodeNumber, s, Some(ReEpisode2))>>
          : s \in {Some(ReSeason2), Some(ReSeasonWord)}}
  \cup {<<TatortRuleset(11, 1, SeasonAndEpisodeNumber, Some(ReSeason4), Some(ReEpisode4))>>}

MinDurations == {0, 600}

InitMatch ==
  /\ NoDownloads
  /\ rulesetsByTopic \in {indexRulesets(list) : list \in MatchRulesetLists}
  /\ generatedRulesetsByTopic = EmptyIndex
  /\ lastFetchTime = StartTimeMs
  /\ initPromise = Some(1)
  /\ now = StartTimeMs
  /\ db = {}
  /\ loads = [l \in Loads |-> IF l = 1
                             THEN [FreeLoadRec EXCEPT !.pc = "done", !.kind = "init"]
                             ELSE FreeLoadRec]
  /\ lookups = [p \in Lookups |-> IdleLookup]
  /\ genReturned = {}
  /\ fn = NoCall
  /\ filterCall \in {[NoFilterCall EXCEPT !.pc = "called", !.tvdbId = 1,
                                          !.minDuration = d,
                                          !.season = rq[1],
                                          !.episodeNumber = rq[2]]
                       : d \in MinDurations, rq \in MatchRequests}

NextMatch ==
  \/ \E api \in ApiResponses, results \in MatchResults : MatchStart(api, results)
  \/ \E fetched \in BOOLEAN : MatchItem(fetched)
  \/ MatchReturn

SpecMatch == InitMatch /\ [][NextMatch]_vars

\* Title normalisation on its own, over every title of at most MaxTitleLen
\* characters of TitleChars.
MaxTitleLen == 4

TitleChars == {"a", "B", "ä", ".", " ", "&", ":"}

TitleTexts == UNION {[1..n -> TitleChars] : n \in 0..MaxTitleLen}

\* the store idle: nothing loaded, no lookup, no call
IdleStore ==
  /\ NoDownloads
  /\ rulesetsByTopic = EmptyIndex
  /\ generatedRulesetsByTopic = EmptyIndex
  /\ lastFetchTime = 0
  /\ initPromise = None
  /\ now = StartTimeMs
  /\ db = {}
  /\ loads = [l \in Loads |-> FreeLoadRec]
  /\ lookups = [p \in Lookups |-> IdleLookup]
  /\ genReturned = {}
  /\ filterCall = NoFilterCall

InitTitle ==
  /\ IdleStore
  /\ fn \in {[NoCall EXCEPT !.name = "NormalizeTitle", !.arg = t] : t \in TitleTexts}

NextTitle == ApplyNormalizeTitle

SpecTitle == InitTitle /\ [][NextTitle]_vars

\* tryParseDate on its own, over days of the calendar written in each of
\* the four formats.
MonthNames ==
  << <<"J","a","n","u","a","r">>,
     <<"F","e","b","r","u","a","r">>,
     <<"M","ä","r","z">>,
     <<"A","p","r","i","l">>,
     <<"M","a","i">>,
     <<"J","u","n","i">>,
     <<"J","u","l","i">>,
     <<"A","u","g","u","s","t">>,
     <<"S","e","p","t","e","m","b","e","r">>,
     <<"O","k","t","o","b","e","r">>,
     <<"N","o","v","e","m","b","e","r">>,
     <<"D","e","z","e","m","b","e","r">> >>

SampleYears == {2017, 2024}
SampleDays == {1, 7, 29, 31}

CalendarDays ==
  {AirDate(y, m, d) : y \in SampleYears, m \in 1..12, d \in SampleDays}

\* the calendar days that exist
SampleDates == {date \in CalendarDays : date.d <= DaysInMonth(date.y, date.m)}

\* n in decimal with at least width digits
Padded(n, width) ==
  LET t == NumToString(n)
  IN [i \in 1..(width - Len(t)) |-> "0"] \o t

DateFormats == {"d. MMMM yyyy", "dd.MM.yyyy", "yyyy-MM-dd", "yyyyMMdd"}

\* date written in format
DateText(date, format) ==
  CASE format = "d. MMMM yyyy" ->
         NumToString(date.d) \o <<".", " ">> \o MonthNames[date.m] \o <<" ">>
           \o Padded(date.y, 4)
    [] format = "dd.MM.yyyy" ->
         Padded(date.d, 2) \o <<".">> \o Padded(date.m, 2) \o <<".">>
           \o Padded(date.y, 4)
    [] format = "yyyy-MM-dd" ->
         Padded(date.y, 4) \o <<"-">> \o Padded(date.m, 2) \o <<"-">>
           \o Padded(date.d, 2)
    [] OTHER ->
         Padded(date.y, 4) \o Padded(date.m, 2) \o Padded(date.d, 2)

InitDate ==
  /\ IdleStore
  /\ fn \in {[NoCall EXCEPT !.name = "tryParseDate",
                            !.arg = [text |-> DateText(date, format),
                                     date |-> date, format |-> format]]
              : date \in SampleDates, format \in DateFormats}

NextDate == ApplyTryParseDate

SpecDate == InitDate /\ [][NextDate]_vars

\* Strategy detection on its own, over the lists of at most MaxSample titles
\* of SampleTitles, which are the titles of hits of one topic.
MaxSample == 4

\* "Staffel 1 Folge 2", "Der Fall (S01/E02)",
\* "Staffel 1 Folge 2 vom 15.01.2024", "Tatort: Der Fall", "Folge 12"
TitleStaffel == <<"S","t","a","f","f","e","l"," ","1"," ","F","o","l","g","e"," ","2">>
TitleParenSE == <<"D","e","r"," ","F","a","l","l"," ","(","S","0","1","/","E","0","2",")">>
TitleStaffelDated == <<"S","t","a","f","f","e","l"," ","1"," ","F","o","l","g","e"," ","2"," ","v","o","m"," ","1","5",".","0","1",".","2","0","2","4">>
TitlePlain == <<"T","a","t","o","r","t",":"," ","D","e","r"," ","F","a","l","l">>
TitleFolge == <<"F","o","l","g","e"," ","1","2">>

SampleTitles == {TitleStaffel, TitleParenSE, TitleStaffelDated, TitlePlain, TitleFolge}

SampleLists == UNION {[1..n -> SampleTitles] : n \in 0..MaxSample}

InitGen ==
  /\ IdleStore
  /\ fn \in {[NoCall EXCEPT !.name = "generate", !.arg = titles]
              : titles \in SampleLists}

NextGen == ApplyGenerate

SpecGen == InitGen /\ [][NextGen]_vars

\* Strategy detection over longer lists: hits of the topic "Tatort" whose
\* titles each carry a known set of the five signatures, listed in blocks of
\* at most MaxCount titles of a kind behind a run of titles without any
\* signature, so that the list can pass the 15 titles that are sampled.
MaxCount == 3

\* "S1E2", "1.1.2024", "Teil 1", "Tatort: A", "Tatort A", "A"
TitleOfKind ==
  [se          |-> <<"S","1","E","2">>,
   date        |-> <<"1",".","1",".","2","0","2","4">>,
   abs         |-> <<"T","e","i","l"," ","1">>,
   prefixColon |-> <<"T","a","t","o","r","t",":"," ","A">>,
   prefix      |-> <<"T","a","t","o","r","t"," ","A">>,
   none        |-> <<"A">>]

Block(kind, n) == [i \in 1..n |-> kind]

\* how many titles without a signature lead the list
LeadingRuns == {0, 7, 13}

KindLists ==
  {Block("none", lead) \o Block("se", a) \o Block("date", b) \o Block("abs", c)
     \o Block("prefixColon", d) \o Block("prefix", e)
     : lead \in LeadingRuns, a \in 0..MaxCount, b \in 0..MaxCount,
       c \in 0..MaxCount, d \in 0..MaxCount, e \in 0..MaxCount}

InitDetect ==
  /\ IdleStore
  /\ fn \in {[NoCall EXCEPT
                !.name = "detectMatchingStrategy",
                !.arg = [kinds |-> kinds,
                         titles |-> [i \in 1..Len(kinds) |-> TitleOfKind[kinds[i]]],
                         topic |-> TopicTatort]]
              : kinds \in KindLists}

NextDetect == ApplyDetect

SpecDetect == InitDetect /\ [][NextDetect]_vars

\* The strategies that compare titles, the title build and the filters on
\* their own: hits of the topic "Tatort", title rules in lists of at most
\* MaxRules rules, the episodes of a show, and thresholds in hundredths.
MaxRules == 2

\* "Tatort: Der Fell", "Tatort: Fall", "Der Fall", "Tatort:  "
TitleDerFell == <<"T","a","t","o","r","t",":"," ","D","e","r"," ","F","e","l","l">>
TitleFall == <<"T","a","t","o","r","t",":"," ","F","a","l","l">>
TitleBlank == <<"T","a","t","o","r","t",":"," "," ">>

\* 12:00 on 2024-06-07 and 01:00 on 2020-03-01, universal time, in seconds
Noon20240607 == 19881 * 86400 + 43200
Early20200301 == 18322 * 86400 + 3600

HitAt(title, filmlisteTimestamp, size) ==
  [Hit(TopicTatort, title, 5400, UrlMp4) EXCEPT
     !.filmlisteTimestamp = filmlisteTimestamp, !.size = size]

StrategyTitles ==
  {TitleNoMarker, TitleDerFell, TitleFall, NameDerFall, TitleDerFall, TitleBlank}

\* the titles the title build is applied to on its own: one with a colon and
\* an episode marker, one without either, one that is blank behind the colon
BuildTitles == {TitleDerFall, NameDerFall, TitleBlank}

\* rules as rulesets hold them; RuleStaticName is {"type":"static","value":"Der Fall"},
\* RuleNoField is a regex rule without a field, RuleOther a rule of a type
\* that is neither static nor regex
RuleAfterColon == TitleRule("regex", <<>>, "title", ReTitleAfterColon)
RuleWhole      == TitleRule("regex", <<>>, "title", ReTitleWhole)
RuleTwoGroups  == TitleRule("regex", <<>>, "title", ReTitleTwoGroups)
RuleNoGroup    == TitleRule("regex", <<>>, "title", ReNoGroup)
RuleUnclosed   == TitleRule("regex", <<>>, "title", ReUnclosed)
RuleDescription == TitleRule("regex", <<>>, "description", ReTitleWhole)
RuleNoField    == TitleRule("regex", <<>>, "", ReTitleWhole)
RuleStaticName == TitleRule("static", NameDerFall, "", "")
RuleStaticEmpty == TitleRule("static", <<>>, "", "")
RuleOther      == TitleRule("other", NameDerFall, "title", ReTitleWhole)

SampleRules ==
  {RuleAfterColon, RuleWhole, RuleTwoGroups, RuleNoGroup, RuleUnclosed,
   RuleDescription, RuleNoField, RuleStaticName, RuleStaticEmpty, RuleOther}

\* the rules a ruleset can hold: text JSON.parse rejects, or a list
RuleLists ==
  {None} \cup {Some(rules) : rules \in UNION {[1..n -> SampleRules] : n \in 0..MaxRules}}

\* the rules of the rulesets the strategies are applied with: the list "[]"
\* of a generated ItemTitleIncludes ruleset, the generator's rule for
\* "Topic: Title", the whole title, and text that is no JSON
StrategyRules == {Some(<<>>), Some(<<RuleAfterColon>>), Some(<<RuleWhole>>), None}

StrategyRuleset(strategy, rulesJson) ==
  [Ruleset(20, TopicTatort, 1, 0, strategy, None, None, DefaultFilters)
     EXCEPT !.titleRegexRules = rulesJson]

\* the show as getShowInfoByTvdbId gives it: not at all, show 1, or show 1
\* with three episodes of one name
EpisodesOfOneName ==
  <<Episode(NameDerFall, 1, 5, Some(AirDate(2020, 3, 1))),
    Episode(NameDerFall, 2, 1, Some(AirDate(2024, 6, 7))),
    Episode(NameDerFall, 3, 1, None),
    Episode(NameDerZeuge, 1, 6, Some(AirDate(2024, 6, 7)))>>

StrategyShows ==
  {None, Some(TvdbData(1)),
   Some([TvdbData(1) EXCEPT !.episodes = EpisodesOfOneName])}

Thresholds == {70, 95, 100}

\* filters over the numeric attributes, with values in decimal
NumericFilters ==
  {Filter(attribute, type, value)
     : attribute \in {"duration", "size", "timestamp", "title"},
       type \in {"GreaterThan", "LessThan"},
       value \in {<<"1","5">>, <<"9","0">>, <<"1","0","0">>, <<"x">>}}

FilterHits ==
  {[Hit(TopicTatort, NameDerFall, duration, UrlMp4) EXCEPT
      !.size = size, !.filmlisteTimestamp = size]
     : duration \in {600, 900, 5400}, size \in {50, 100, 5000}}

InitStrategy ==
  /\ IdleStore
  /\ fn \in
       {[NoCall EXCEPT
           !.name = name,
           !.arg = [item |-> HitAt(title, timestamp, 0),
                    ruleset |-> StrategyRuleset(ItemTitleIncludes, rulesJson),
                    tvdbData |-> tvdbData, threshold |-> threshold]]
          : name \in {"matchesItemTitleIncludes"}, title \in StrategyTitles,
            timestamp \in {0}, rulesJson \in StrategyRules,
            tvdbData \in StrategyShows, threshold \in Thresholds}
       \cup
       {[NoCall EXCEPT
           !.name = name,
           !.arg = [item |-> HitAt(title, timestamp, 0),
                    ruleset |-> StrategyRuleset(ItemTitleExact, rulesJson),
                    tvdbData |-> tvdbData, threshold |-> threshold]]
          : name \in {"matchesItemTitleExact"}, title \in StrategyTitles,
            timestamp \in {0, Noon20240607, Early20200301},
            rulesJson \in StrategyRules,
            tvdbData \in StrategyShows, threshold \in Thresholds}
       \cup
       {[NoCall EXCEPT
           !.name = "buildTitleFromRegexRules",
           !.arg = [item |-> HitAt(title, 0, 0), rulesJson |-> rulesJson]]
          : title \in BuildTitles, rulesJson \in RuleLists}
       \cup
       {[NoCall EXCEPT
           !.name = "filterMatches",
           !.arg = [item |-> item, filter |-> filter]]
          : item \in FilterHits, filter \in NumericFilters}

NextStrategy ==
  \/ ApplyIncludes
  \/ ApplyExact
  \/ ApplyBuildTitle
  \/ ApplyFilter

SpecStrategy == InitStrategy /\ [][NextStrategy]_vars

\* The download manager on its own: at most MaxDownloads rows are added,
\* and at most MaxTasks processDownload invocations exist at one time.
InitDownload ==
  /\ IdleStore
  /\ fn = NoCall

\* the steps the event loop, the database, the network and the converter
\* take by themselves
QueueSteps ==
  \/ QueueFindFirst
  \/ QueueBreak
  \/ \E t \in TaskIds : QueueProcess(t)

TaskSteps(t) ==
  \/ FindUnique(t)
  \/ SkipDownload(t)
  \/ BeginDownload(t)
  \/ MarkDownloading(t)
  \/ \E outcome \in FetchOutcomes : Fetch(t, outcome)
  \/ MarkConverting(t)
  \/ \E success \in BOOLEAN : Convert(t, success)
  \/ MarkCompleted(t)
  \/ MarkAsFailed(t)
  \/ EnterFinally(t)
  \/ CountQueued(t)
  \/ EndDownload(t)

NextDownload ==
  \/ \E d \in DownloadIds : AddToQueue(d)
  \/ \E d \in DownloadIds : TriggerDownloadProcessing(d)
  \/ QueueFindFirst
  \/ QueueBreak
  \/ \E t \in TaskIds : QueueProcess(t)
  \/ \E t \in TaskIds : FindUnique(t)
  \/ \E t \in TaskIds : SkipDownload(t)
  \/ \E t \in TaskIds : BeginDownload(t)
  \/ \E t \in TaskIds : MarkDownloading(t)
  \/ \E t \in TaskIds, outcome \in FetchOutcomes : Fetch(t, outcome)
  \/ \E t \in TaskIds : MarkConverting(t)
  \/ \E t \in TaskIds, success \in BOOLEAN : Convert(t, success)
  \/ \E t \in TaskIds : MarkCompleted(t)
  \/ \E t \in TaskIds : MarkAsFailed(t)
  \/ \E t \in TaskIds : EnterFinally(t)
  \/ \E t \in TaskIds : CountQueued(t)
  \/ \E t \in TaskIds : EndDownload(t)

SpecDownload == InitDownload /\ [][NextDownload]_vars

\* The same under the scheduling of the server: a database query that was
\* sent is executed, a continuation whose promise was resolved runs, the
\* timer of the loop fires, and every fetch and every conversion ends.  No
\* addToQueue call has to happen.
SpecDownloadFair ==
  /\ SpecDownload
  /\ WF_vars(QueueSteps)
  /\ \A d \in DownloadIds : WF_vars(TriggerDownloadProcessing(d))
  /\ \A t \in TaskIds : WF_vars(TaskSteps(t))

(* ---- properties ---------------------------------------------------------- *)
\* pcs of a lookup that has got past its await of ensureRulesetsLoaded
PastEnsurePcs == {"settings", "dbLookup"} \cup GeneratorPcs

\* C1: as long as the first loadRulesets has not completed, loadRulesets has
\* been started at most once: every ensureRulesetsLoaded call that begins in
\* that time shares the one load and starts no other, neither as the first
\* load nor as a refresh.
C1_SingleFlightFirstLoad ==
  ~FirstLoadCompleted => Cardinality(LoadsStarted) <= 1

\* C2: a lookup whose ensureRulesetsLoaded call began before the first
\* loadRulesets had finished is not past that call unless the first load has
\* finished.
C2_EarlyCallerWaitsForFirstLoad ==
  \A p \in Lookups :
    (lookups[p].early /\ lookups[p].pc \in PastEnsurePcs) => FirstLoadCompleted

\* C3: no two lookups are inside generateRulesetForShow for the same show id
\* at the same time.
C3_GenerationSerializedPerShow ==
  \A p, q \in Lookups :
    (p # q /\ lookups[p].pc \in GeneratorPcs /\ lookups[q].pc \in GeneratorPcs)
      => lookups[p].tvdbId # lookups[q].tvdbId

C5_GenerationOncePerShow ==
  \A p \in Lookups :
    lookups[p].afterGen => lookups[p].ops \cap {"search", "create"} = {}

\* C6: no lookup ends with the unique constraint error of a lost
\* persistence race.
C6_ConflictNotPropagated ==
  \A p \in Lookups : lookups[p].result # "threw"

\* C7: no lookup is suspended in ensureRulesetsLoaded on a refresh: the only
\* load a lookup ever waits for is the initial one.
C7_NoLookupAwaitsRefresh ==
  \A p \in Lookups :
    lookups[p].pc = "awaitInit" => loads[lookups[p].awaits].kind = "init"

\* C7 witness: after a completed load the hourly refresh a lookup started is
\* still in flight while that lookup has gone on to read the loaded index
C7_Witness ==
  \E l \in LoadsInFlight :
    /\ loads[l].kind = "refresh"
    /\ lastFetchTime > 0
    /\ isRulesetsLoaded
    /\ lookups[loads[l].by].pc = "dbLookup"

\* C8: while a refresh has published its curated index and read the
\* generated rows, the index a lookup can read is the complete index from
\* before the refresh or the complete index the refresh builds.
C8_AtomicSnapshotSwap ==
  \A l \in Loads :
    (loads[l].kind = "refresh" /\ loads[l].pc = "genAssign")
      => <<rulesetsByTopic, generatedRulesetsByTopic>>
           \in {loads[l].prev, <<loads[l].next, GroupGenerated(loads[l].rows)>>}

\* the request of lookup p names a season for which getDesiredEpisodes, when
\* fetchSearchResultsById calls it, yields the empty list
NoDesiredEpisode(p) ==
  /\ lookups[p].pc # "idle"
  /\ lookups[p].result # "cached"
  /\ IsSome(lookups[p].season) /\ Val(lookups[p].season) # <<>>
  /\ getDesiredEpisodes(TvdbData(lookups[p].tvdbId), lookups[p].season,
                        lookups[p].episodeNumber) = Some(<<>>)

\* C9: a lookup that names a season for which getDesiredEpisodes yields the
\* empty list has returned the empty result, and it has made no catalog
\* query, no ruleset lookup, no generation and no strategy call.
C9_ShortCircuitOnEmptyDesiredSet ==
  \A p \in Lookups :
    NoDesiredEpisode(p)
      => /\ lookups[p].pc = "done"
         /\ lookups[p].result = "shortCircuit"
         /\ lookups[p].ops = {}

\* C9 witness: a request for the episodes of a year in which the show aired
\* none has short-circuited, in a server with loaded and generated rulesets
C9_Witness ==
  \E p \in Lookups :
    /\ NoDesiredEpisode(p) /\ lookups[p].result = "shortCircuit"
    /\ lookups[p].season = Some(Year2020)
    /\ isRulesetsLoaded /\ genReturned # {}

\* every character of a capture is a decimal digit
Numeric(capture) ==
  IsSome(capture) /\ AllDigits(Val(capture))

\* C10: every call of the SeasonAndEpisodeNumber strategy for a hit that was
\* not skipped and passed the filters returned the first episode of the show
\* whose season and episode number are the numbers the two patterns capture
\* from the title, and then the pipeline holds exactly one match for the
\* hit; it returned no match when a capture is missing or is not a decimal
\* number or the show has no such episode.
C10_SeasonAndEpisodeMatch ==
  \A k \in 1..Len(filterCall.calls) :
    LET call == filterCall.calls[k]
        season == extractValueUsingRegex(call.item, call.ruleset.seasonRegex)
        episode == extractValueUsingRegex(call.item, call.ruleset.episodeRegex)
        found == IF IsSome(call.tvdbData) /\ Numeric(season) /\ Numeric(episode)
                 THEN SelectSeq(Val(call.tvdbData).episodes,
                                LAMBDA ep :
                                  /\ ep.seasonNumber = DigitsValue(Val(season))
                                  /\ ep.episodeNumber = DigitsValue(Val(episode)))
                 ELSE <<>>
    IN call.ruleset.matchingStrategy = SeasonAndEpisodeNumber
         => IF found # <<>>
            THEN /\ IsSome(call.matchInfo)
                 /\ Val(call.matchInfo).episode = found[1]
                 /\ Cardinality({m \in 1..Len(filterCall.matchedEpisodes) :
                        filterCall.matchedEpisodes[m].item = call.item}) = 1
            ELSE call.matchInfo = None

\* the step in which generateRulesetForShow, suspended in a catalog search
\* of lookup p, returns null to the lookup: no other step takes a lookup
\* from a search to its end
NullReturn(p) ==
  /\ lookups[p].pc \in {"genSearch", "genSearchEn"}
  /\ lookups'[p].pc = "done"

C12_EmptyResultNotError ==
  /\ filterCall.pc # "threw"
  /\ (/\ filterCall.pc = "returned"
      /\ \/ filterCall.api \in {"failed", "unparsable"}
         \/ (filterCall.api = "json" /\ filterCall.matchedEpisodes = <<>>))
       => filterCall.response = EmptyRss

\* C12 witness: an invocation has returned whose catalog body held two hits
\* of which the loop matched none
C12_Witness ==
  /\ filterCall.pc = "returned" /\ filterCall.api = "json"
  /\ Len(filterCall.results) = 2 /\ filterCall.calls # <<>>
  /\ filterCall.matchedEpisodes = <<>> /\ filterCall.response = EmptyRss

\* every filter of the ruleset accepts the hit
PassesFilters(item, ruleset) ==
  \A k \in 1..Len(ruleset.filters) : filterMatches(item, ruleset.filters[k])

\* the strategy calls the loop made for the hit
CallsFor(item) ==
  SelectSeq(filterCall.calls, LAMBDA call : call.item = item)

\* C18: for every hit the loop is through with and did not skip, the
\* strategy calls made for it are, in list order, the rulesets of its topic
\* and show that accept it under their filters, with none of the rejecting
\* rulesets among them; only the last of these calls can have matched; the
\* calls stop short of the accepting rulesets only after a match; and the
\* matched episodes hold one entry for the hit if its last call matched and
\* none otherwise.
C18_RulesetTrialPerHit ==
  \A i \in 1..Len(filterCall.results) :
    LET item == filterCall.results[i]
        passing == SelectSeq(getRulesetsForTopicAndTvdbId(item.topic,
                                                          filterCall.tvdbId),
                             LAMBDA ruleset : PassesFilters(item, ruleset))
        mine == CallsFor(item)
        matches == Cardinality({m \in 1..Len(filterCall.matchedEpisodes) :
                                  filterCall.matchedEpisodes[m].item = item})
    IN (i < filterCall.position /\ ~shouldSkipItem(item, filterCall.minDuration))
         => /\ Len(mine) <= Len(passing)
            /\ \A k \in 1..Len(mine) : mine[k].ruleset = passing[k]
            /\ \A k \in 1..(Len(mine) - 1) : mine[k].matchInfo = None
            /\ Len(mine) < Len(passing) => IsSome(mine[Len(mine)].matchInfo)
            /\ matches = IF mine # <<>> /\ IsSome(mine[Len(mine)].matchInfo)
                         THEN 1 ELSE 0

\* C18 witness: the loop is through with two hits under a list of two
\* rulesets; the first ruleset rejected one hit, which the second then
\* matched, and the first matched the other hit, for which the second was
\* not tried
C18_Witness ==
  /\ filterCall.pc = "returned" /\ Len(filterCall.matchedEpisodes) = 2
  /\ \E i, j \in 1..Len(filterCall.results) :
       /\ Len(getRulesetsForTopicAndTvdbId(filterCall.results[i].topic,
                                           filterCall.tvdbId)) = 2
       /\ ~PassesFilters(filterCall.results[i],
                         getRulesetsForTopicAndTvdbId(
                           filterCall.results[i].topic, filterCall.tvdbId)[1])
       /\ Len(CallsFor(filterCall.results[i])) = 1
       /\ CallsFor(filterCall.results[i])[1].ruleset.id = 11
       /\ IsSome(CallsFor(filterCall.results[i])[1].matchInfo)
       /\ Len(CallsFor(filterCall.results[j])) = 1
       /\ CallsFor(filterCall.results[j])[1].ruleset.id = 13
       /\ IsSome(CallsFor(filterCall.results[j])[1].matchInfo)

\* the priorities of the list from position from to position to ascend
Ascending(list, from, to) ==
  \A i, j \in from..to : i < j => list[i].priority <= list[j].priority

\* C19: for every topic, at every moment, the list getRulesetsForTopic
\* returns is the topic's generated rulesets followed by its curated
\* rulesets, and the priorities ascend within the generated part and within
\* the curated part.
C19_GeneratedThenCuratedAscending ==
  \A t \in Topics :
    LET list == getRulesetsForTopic(t)
        g == Len(generatedRulesetsByTopic[t])
    IN /\ Len(list) = g + Len(rulesetsByTopic[t])
       /\ \A i \in 1..g : list[i] = generatedRulesetsByTopic[t][i]
       /\ \A i \in (g + 1)..Len(list) : list[i] = rulesetsByTopic[t][i - g]
       /\ Ascending(list, 1, g)
       /\ Ascending(list, g + 1, Len(list))

\* C19 witness: the list published out of priority order is indexed, so a
\* topic has two curated rulesets of different priorities, and a topic has
\* a generated ruleset as well as a curated one
C19_Witness ==
  /\ \E t \in Topics :
       /\ Len(rulesetsByTopic[t]) = 2
       /\ rulesetsByTopic[t][1].priority < rulesetsByTopic[t][2].priority
  /\ \E t \in Topics :
       /\ generatedRulesetsByTopic[t] # <<>> /\ rulesetsByTopic[t] # <<>>
       /\ Len(getRulesetsForTopic(t)) >= 2

\* the positions of the matched episodes whose season and episode number
\* are those of a desired episode
DesiredPositions ==
  {m \in 1..Len(filterCall.matchedEpisodes) :
     \E d \in 1..Len(Val(filterCall.desiredEpisodes)) :
       <<Val(filterCall.desiredEpisodes)[d].seasonNumber,
         Val(filterCall.desiredEpisodes)[d].episodeNumber>>
         = <<filterCall.matchedEpisodes[m].episode.seasonNumber,
             filterCall.matchedEpisodes[m].episode.episodeNumber>>}

\* the k-th smallest member of a set of positions
NthPosition(positions, k) ==
  CHOOSE m \in positions : Cardinality({x \in positions : x < m}) = k - 1

\* C20: an invocation that has returned from the loop over the catalog
\* hits has passed on, when the request names no season, the matched
\* episodes as they are, and otherwise exactly the matched episodes whose
\* season and episode number are those of a desired episode, in the order
\* in which they were matched.
C20_DesiredEpisodeFilter ==
  (filterCall.pc = "returned" /\ filterCall.api = "json")
    => /\ IsSome(filterCall.response)
       /\ IF ~IsSome(filterCall.season) \/ Val(filterCall.season) = <<>>
          THEN Val(filterCall.response) = filterCall.matchedEpisodes
          ELSE /\ IsSome(filterCall.desiredEpisodes)
               /\ Len(Val(filterCall.response)) = Cardinality(DesiredPositions)
               /\ \A k \in 1..Len(Val(filterCall.response)) :
                    Val(filterCall.response)[k] =
                      filterCall.matchedEpisodes[NthPosition(DesiredPositions, k)]

\* C20 witness: a request for one episode of a season has returned after
\* the loop matched two episodes of that season, of which the response
\* holds the one asked for
C20_Witness ==
  /\ filterCall.pc = "returned" /\ filterCall.api = "json"
  /\ IsSome(filterCall.season) /\ IsSome(filterCall.episodeNumber)
  /\ Len(filterCall.matchedEpisodes) = 2
  /\ filterCall.matchedEpisodes[1].episode.seasonNumber
       = filterCall.matchedEpisodes[2].episode.seasonNumber
  /\ Len(Val(filterCall.response)) = 1

\* C13: normalising the output of a title normalisation gives that output.
C13_NormalizeTitleIdempotent ==
  (fn.name = "NormalizeTitle" /\ Len(fn.out) = 2) => fn.out[2] = fn.out[1]

\* C14: tryParseDate applied to a calendar day written in one of the four
\* formats returns that day.
C14_TryParseDateFormats ==
  (fn.name = "tryParseDate" /\ fn.out # <<>>) => fn.out[1] = Some(fn.arg.date)

\* C15: when at least 3 of the titles the generator looked at match
\* Staffel <n> Folge <m>, it emits strategy SeasonAndEpisodeNumber with
\* season pattern Staffel\s*(\d+) and episode pattern Folge\s*(\d+).
C15_StaffelFolgeInference ==
  (/\ fn.name = "generate" /\ fn.out # <<>>
   /\ CountWhere(fn.arg, LAMBDA t : Test(PatStaffelFolge.atoms, TRUE, t)) >= 3)
    => /\ fn.out[1].matchingStrategy = SeasonAndEpisodeNumber
       /\ fn.out[1].patterns.seasonRegex = "Staffel\\s*(\\d+)"
       /\ fn.out[1].patterns.episodeRegex = "Folge\\s*(\\d+)"

\* the tags the switch of applyRulesetFilters has a case for
StrategyTags ==
  {SeasonAndEpisodeNumber, ItemTitleIncludes, ItemTitleExact, ItemTitleEqualsAirdate}

\* C16: the strategy the generator emits is one of the four tags for which
\* the dispatcher runs a strategy.
C16_GeneratedStrategyIsDispatched ==
  (fn.name = "generate" /\ fn.out # <<>>)
    => fn.out[1].matchingStrategy \in StrategyTags

\* C17: the generated index holds at most one ruleset for a topic and a
\* show id.
C17_OneGeneratedRulesetPerTopicAndShow ==
  \A t \in Topics :
    \A i, j \in 1..Len(generatedRulesetsByTopic[t]) :
      generatedRulesetsByTopic[t][i].media.media_tvdbId
        = generatedRulesetsByTopic[t][j].media.media_tvdbId
        => i = j

\* how many of the first 15 kinds of the call followed in fn are in the set
SampledOf(kindSet) ==
  Cardinality({i \in 1..Len(fn.arg.kinds) : i <= 15 /\ fn.arg.kinds[i] \in kindSet})

CandidateOfCall ==
  toLowerCase(formatTitle(Val(buildTitleFromRegexRules(fn.arg.item,
                                                       fn.arg.ruleset.titleRegexRules))))

NormalizedName(ep) == toLowerCase(formatTitle(ep.name))

\* the strategy call followed in fn has returned, had episodes to choose
\* from and a candidate title that is not empty
StrategyCallChose(name) ==
  /\ fn.name = name /\ fn.out # <<>>
  /\ IsSome(fn.arg.tvdbData) /\ Val(fn.arg.tvdbData).episodes # <<>>
  /\ IsSome(buildTitleFromRegexRules(fn.arg.item, fn.arg.ruleset.titleRegexRules))
  /\ CandidateOfCall # <<>>

\* C22: ItemTitleIncludes returns an episode whose normalized name is a
\* substring of the normalized candidate title if there is one; if there is
\* none and the threshold is below 1.0 it returns an episode of maximal
\* similarity among those with similarity >= threshold, and nothing if there
\* is none of those either.
C22_IncludesAcceptsContainedEpisodeName ==
  StrategyCallChose("matchesItemTitleIncludes")
    => LET episodes == Val(fn.arg.tvdbData).episodes
           contained == {k \in 1..Len(episodes) :
                           includes(CandidateOfCall, NormalizedName(episodes[k]))}
           similar == {k \in 1..Len(episodes) :
                         AtLeast(stringSimilarity(formatTitle(episodes[k].name),
                                                  CandidateOfCall),
                                 fn.arg.threshold)}
       IN IF contained # {}
          THEN /\ IsSome(fn.out[1])
               /\ \E k \in contained : Val(fn.out[1]).episode = episodes[k]
          ELSE IF fn.arg.threshold < 100 /\ similar # {}
          THEN /\ IsSome(fn.out[1])
               /\ \E k \in similar :
                    /\ Val(fn.out[1]).episode = episodes[k]
                    /\ \A j \in similar :
                         ~Greater(stringSimilarity(formatTitle(episodes[j].name),
                                                   CandidateOfCall),
                                  stringSimilarity(formatTitle(episodes[k].name),
                                                   CandidateOfCall))
          ELSE fn.out[1] = None

\* the episodes that tie on the candidate title of the call followed in fn:
\* those of the same normalized name or, if there is none and the threshold
\* is below 1.0, those at least 0.9 and at least the threshold similar
TiedOfCall ==
  LET episodes == Val(fn.arg.tvdbData).episodes
      same == {k \in 1..Len(episodes) : NormalizedName(episodes[k]) = CandidateOfCall}
      high == IF fn.arg.threshold >= 90 THEN fn.arg.threshold ELSE 90
  IN IF same = {} /\ fn.arg.threshold < 100
     THEN {k \in 1..Len(episodes) :
             AtLeast(stringSimilarity(NormalizedName(episodes[k]), CandidateOfCall),
                     high)}
     ELSE same

\* the tied episodes aired on the calendar day of the hit's catalog timestamp
SameDayOfCall ==
  {k \in TiedOfCall :
     LET ep == Val(fn.arg.tvdbData).episodes[k]
     IN IsSome(ep.aired)
        /\ Val(ep.aired) = DateOfTimestamp(fn.arg.item.filmlisteTimestamp)}

\* C23: when several episodes tie on the candidate title, ItemTitleExact
\* returns a tied episode aired on the calendar day of the hit's catalog
\* timestamp, and if there is none a tied episode than which no tied episode
\* was aired later.
C23_ExactTieByAirDate ==
  (StrategyCallChose("matchesItemTitleExact") /\ Cardinality(TiedOfCall) > 1)
    => LET episodes == Val(fn.arg.tvdbData).episodes
       IN /\ IsSome(fn.out[1])
          /\ IF SameDayOfCall # {}
             THEN \E k \in SameDayOfCall : Val(fn.out[1]).episode = episodes[k]
             ELSE \E k \in TiedOfCall :
                    /\ Val(fn.out[1]).episode = episodes[k]
                    /\ \A j \in TiedOfCall :
                         AiredTime(episodes[j]) <= AiredTime(episodes[k])

\* C23 witness: three episodes tied, the hit's timestamp is on the day the
\* oldest of them was aired, and that one has been returned
C23_Witness ==
  /\ StrategyCallChose("matchesItemTitleExact")
  /\ Cardinality(TiedOfCall) = 3
  /\ SameDayOfCall # {}
  /\ \E j \in TiedOfCall :
       AiredTime(Val(fn.arg.tvdbData).episodes[j]) > AiredTime(Val(fn.out[1]).episode)

\* C23 witness of the fallback: three episodes tied, none aired on the day
\* of the hit's timestamp, and the one aired last has been returned
C23_WitnessNewest ==
  /\ StrategyCallChose("matchesItemTitleExact")
  /\ Cardinality(TiedOfCall) = 3
  /\ SameDayOfCall = {}
  /\ IsSome(Val(fn.out[1]).episode.aired)

RECURSIVE Concat(_)
Concat(seqs) == IF seqs = <<>> THEN <<>> ELSE Head(seqs) \o Concat(Tail(seqs))

\* rule is a regex fragment with a pattern whose field has a value in item
RegexApplies(item, rule) ==
  /\ rule.type = "regex" /\ rule.pattern # "" /\ rule.field # ""
  /\ getFieldValue(item, rule.field) # <<>>

\* C24: the title built from a list of fragments is the concatenation, in
\* the order of the fragments, of the static values and of the last capture
\* group of the first match of each regex fragment on its field; when the
\* pattern of a regex fragment with a non-empty field does not match or is
\* malformed, the build returns no title (and does not throw).
C24_BuildConcatenatesOrAborts ==
  (fn.name = "buildTitleFromRegexRules" /\ fn.out # <<>> /\ IsSome(fn.arg.rulesJson))
    => LET item == fn.arg.item
           rules == Val(fn.arg.rulesJson)
           match(k) == TitleMatch(getFieldValue(item, rules[k].field), rules[k].pattern)
           piece(k) == IF rules[k].type = "static" THEN rules[k].value
                       ELSE IF RegexApplies(item, rules[k])
                       THEN Val(match(k))[Len(Val(match(k)))]
                       ELSE <<>>
       IN IF \E k \in 1..Len(rules) : RegexApplies(item, rules[k]) /\ ~IsSome(match(k))
          THEN fn.out[1] = None
          ELSE fn.out[1] = Some(Concat([k \in 1..Len(rules) |-> piece(k)]))

\* C24 witness: a static value and a pattern of two groups have given the
\* value followed by the second group
C24_Witness ==
  /\ fn.name = "buildTitleFromRegexRules" /\ fn.out # <<>>
  /\ fn.arg.item.title = TitleDerFall
  /\ fn.arg.rulesJson = Some(<<RuleStaticName, RuleTwoGroups>>)
  /\ fn.out[1] = Some(NameDerFall \o <<"E", "0", "5">>)

\* C24 witness of the abort: a part was built, then a malformed pattern met
\* a title that is not empty, and the build has returned no title
C24_WitnessAbort ==
  /\ fn.name = "buildTitleFromRegexRules" /\ fn.out # <<>>
  /\ fn.arg.item.title = TitleDerFall
  /\ fn.arg.rulesJson = Some(<<RuleStaticName, RuleUnclosed>>)
  /\ fn.out[1] = None

\* C25: a GreaterThan or LessThan filter holds exactly when both sides are
\* numbers and the attribute is greater (less) than the filter's value, the
\* value being multiplied by 60 for the attribute duration and taken as it
\* is for size and timestamp.
C25_ScaleOnlyDuration ==
  (fn.name = "filterMatches" /\ fn.out # <<>>
     /\ fn.arg.filter.type \in {"GreaterThan", "LessThan"})
    => LET attrNum == parseFloat(getFieldValue(fn.arg.item, fn.arg.filter.attribute))
           filterNum == parseFloat(fn.arg.filter.value)
           scale == IF fn.arg.filter.attribute = "duration" THEN 60 ELSE 1
       IN fn.out[1] =
            (/\ IsSome(attrNum) /\ IsSome(filterNum)
             /\ IF fn.arg.filter.type = "GreaterThan"
                THEN Val(attrNum) > Val(filterNum) * scale
                ELSE Val(attrNum) < Val(filterNum) * scale)

\* C26: with a ruleset of strategy ItemTitleIncludes whose list of title
\* rules is empty, as the generator emits it, a hit is matched to an episode
\* whenever the title of an episode of the show is contained in the hit's
\* title.
C26_GeneratedIncludesMatchesContainedTitle ==
  (/\ fn.name = "matchesItemTitleIncludes" /\ fn.out # <<>>
   /\ fn.arg.ruleset.titleRegexRules = Some(<<>>)
   /\ IsSome(fn.arg.tvdbData))
    => LET episodes == Val(fn.arg.tvdbData).episodes
           contained == {k \in 1..Len(episodes) :
                           includes(toLowerCase(formatTitle(fn.arg.item.title)),
                                    NormalizedName(episodes[k]))}
       IN contained # {}
            => /\ IsSome(fn.out[1])
               /\ \E k \in contained : Val(fn.out[1]).episode = episodes[k]

\* the step is a call of ensureRulesetsLoaded by lookup p
EnsureCallBy(p) ==
  lookups[p].pc = "idle" /\ "ensure" \in lookups'[p].ops

\* C27: at most one loadRulesets is ever started by the initialization path
\* of ensureRulesetsLoaded; once initPromise is set, a call that finds the
\* curated index empty starts no load and no refresh and leaves the index as
\* it is; and with no load in flight an empty index stays empty.
C27_InitializationPathOnce ==
  [][/\ Cardinality({l \in Loads : loads'[l].kind = "init"}) <= 1
     /\ \A p \in Lookups :
          (EnsureCallBy(p) /\ initPromise # None /\ ~isRulesetsLoaded)
            => /\ loads' = loads
               /\ initPromise' = initPromise
               /\ rulesetsByTopic' = rulesetsByTopic
     /\ (initPromise # None /\ LoadsInFlight = {} /\ ~isRulesetsLoaded)
          => (LoadsInFlight' = {} /\ ~isRulesetsLoaded')]_vars

\* C27 witness: the first load has returned and has left the curated index
\* empty, and a lookup that called ensureRulesetsLoaded after that awaits
\* initPromise with no load in flight
C27_Witness ==
  /\ FirstLoadCompleted /\ ~isRulesetsLoaded /\ LoadsInFlight = {}
  /\ \E p \in Lookups : lookups[p].pc = "awaitInit" /\ ~lookups[p].early

\* the rows a download is in progress for
InProgress == {d \in DownloadIds : download[d] \in {"downloading", "converting"}}

\* C28: at most MAX_CONCURRENT_DOWNLOADS rows are in status downloading or
\* converting at the same time, and the permits of the semaphore stay
\* between 0 and their initial number.
C28_OneDownloadAtATime ==
  /\ Cardinality(InProgress) <= MAX_CONCURRENT_DOWNLOADS
  /\ downloadSemaphore.permits \in 0..MAX_CONCURRENT_DOWNLOADS

\* C28 witness: a download is in progress, and a processDownload invocation
\* for a row that is still queued waits in the queue of the semaphore
C28_Witness ==
  /\ InProgress # {}
  /\ downloadSemaphore.permits = 0
  /\ \E t \in TaskIds :
       /\ Waits(downloadSemaphore, t)
       /\ download[tasks[t].downloadId] = "queued"

\* C29: every row that is queued reaches the status completed or failed.
C29_QueuedDownloadEnds ==
  \A d \in DownloadIds :
    (download[d] = "queued") ~> (download[d] \in {"completed", "failed"})

\* the changes of status that go forward
Forward ==
  {<<"absent", "queued">>, <<"queued", "downloading">>,
   <<"downloading", "converting">>, <<"downloading", "completed">>,
   <<"downloading", "failed">>, <<"converting", "completed">>,
   <<"converting", "failed">>}

\* C30: the status of a row changes only forward along queued, downloading,
\* converting, then completed or failed: a row becomes downloading from
\* queued only, so it is picked up at most once, and a row that is completed
\* or failed keeps its status.
C30_StatusMovesForward ==
  [][\A d \in DownloadIds :
       download'[d] # download[d] => <<download[d], download'[d]>> \in Forward]_vars

\* C30 witness: processDownload has been called again for a row that is
\* completed or failed, holds the permit and has read the row
C30_Witness ==
  \E t \in TaskIds :
    /\ tasks[t].pc = "check"
    /\ tasks[t].seen \in {"completed", "failed"}
    /\ download[tasks[t].downloadId] = tasks[t].seen

====
